---------------------------- MODULE Spec2Model ----------------------------
(***************************************************************************)
(* Model of the portfolio rebalancer (programs/rebalancer): the            *)
(* performance scorer, the allocation planner and the capital extraction   *)
(* engine.                                                                 *)
(*                                                                         *)
(* The program computes on u64 / u128 quantities of lamports.  TLC's       *)
(* integers are 32 bits wide, so every u64 / u128 quantity is kept as a    *)
(* natural number written in radix 10^4: a sequence of limbs, least        *)
(* significant first, without leading zero limbs (zero is <<>>).  The      *)
(* arithmetic below is exact; the u64 width is applied where the code      *)
(* applies it (checked_add, checked_sub, saturating_sub, plain `*`).       *)
(***************************************************************************)
EXTENDS Integers, Sequences, FiniteSets, TLC

VARIABLES
    overflow_checks, \* build profile: TRUE = overflow-checks on (plain `*` panics)
    sc_in,           \* PerformanceScorer: arguments of the call
    sc_out,          \* PerformanceScorer: value returned
    sc_prev,         \* PerformanceScorer: the preceding call (arguments, value)
    strategy,        \* the Strategy account
    position,        \* the CapitalPosition account
    now,             \* Clock::get()?.unix_timestamp
    ix_result,       \* outcome of the last instruction / extraction on the accounts
    pre,             \* the accounts as they were when that operation was entered
    al_in,           \* AllocationPlanner: arguments of the call
    al_out,          \* AllocationPlanner: value returned
    portfolio,       \* the Portfolio account
    pc               \* "ready": the call is about to be made; "done": it has returned

vars == <<overflow_checks, sc_in, sc_out, sc_prev, strategy, position, now,
          ix_result, pre, al_in, al_out, portfolio, pc>>

-----------------------------------------------------------------------------
(* Wide naturals.                                                          *)

Base == 100 * 100

RECURSIVE Norm(_)
Norm(s) == IF s = <<>> THEN <<>>
           ELSE IF s[Len(s)] = 0 THEN Norm(SubSeq(s, 1, Len(s) - 1))
           ELSE s

RECURSIVE N(_)
\* the wide natural of a TLC integer
N(k) == IF k = 0 THEN <<>> ELSE <<k % Base>> \o N(k \div Base)

RECURSIVE Rev(_)
Rev(s) == IF s = <<>> THEN <<>> ELSE Rev(Tail(s)) \o <<Head(s)>>

\* a decimal literal written in groups of four digits, most significant first:
\* 100_000_000 is Lit(<<1, 0, 0>>)
Lit(groups) == Norm(Rev(groups))

Limb(a, i) == IF i <= Len(a) THEN a[i] ELSE 0

Max2(x, y) == IF x >= y THEN x ELSE y

RECURSIVE AddFrom(_, _, _, _)
AddFrom(a, b, i, c) ==
    IF i > Max2(Len(a), Len(b))
    THEN (IF c = 0 THEN <<>> ELSE <<c>>)
    ELSE LET t == Limb(a, i) + Limb(b, i) + c
         IN  <<t % Base>> \o AddFrom(a, b, i + 1, t \div Base)

BAdd(a, b) == AddFrom(a, b, 1, 0)

RECURSIVE CmpFrom(_, _, _)
CmpFrom(a, b, i) ==
    IF i = 0 THEN 0
    ELSE IF a[i] < b[i] THEN -1
    ELSE IF a[i] > b[i] THEN 1
    ELSE CmpFrom(a, b, i - 1)

BCmp(a, b) == IF Len(a) < Len(b) THEN -1
              ELSE IF Len(a) > Len(b) THEN 1
              ELSE CmpFrom(a, b, Len(a))

BLt(a, b) == BCmp(a, b) < 0
BLe(a, b) == BCmp(a, b) <= 0

RECURSIVE SubFrom(_, _, _, _)
SubFrom(a, b, i, c) ==
    IF i > Len(a) THEN <<>>
    ELSE LET t == a[i] - Limb(b, i) - c
         IN  IF t < 0 THEN <<t + Base>> \o SubFrom(a, b, i + 1, 1)
             ELSE <<t>> \o SubFrom(a, b, i + 1, 0)

\* a - b, for b <= a
BSub(a, b) == Norm(SubFrom(a, b, 1, 0))

RECURSIVE MulSFrom(_, _, _, _)
MulSFrom(a, k, i, c) ==
    IF i > Len(a)
    THEN N(c)
    ELSE LET t == a[i] * k + c
         IN  <<t % Base>> \o MulSFrom(a, k, i + 1, t \div Base)

\* a * k, for a limb-sized k (k < Base)
BMulS(a, k) == IF k = 0 THEN <<>> ELSE MulSFrom(a, k, 1, 0)

BShift(a) == IF a = <<>> THEN <<>> ELSE <<0>> \o a

RECURSIVE MulFrom(_, _, _)
MulFrom(a, b, j) ==
    IF j > Len(b) THEN <<>>
    ELSE BAdd(BMulS(a, b[j]), BShift(MulFrom(a, b, j + 1)))

BMul(a, b) == MulFrom(a, b, 1)

RECURSIVE QDigit(_, _, _, _)
\* the largest d in lo..hi with b * d <= r (b * lo <= r is given)
QDigit(r, b, lo, hi) ==
    IF lo = hi THEN lo
    ELSE LET mid == (lo + hi + 1) \div 2
         IN  IF BLe(BMulS(b, mid), r) THEN QDigit(r, b, mid, hi)
             ELSE QDigit(r, b, lo, mid - 1)

\* bounds of floor(r / b) from the leading limbs, for b of two limbs or more
\* and r < b * Base
QHigh(r, b) ==
    LET rt == Limb(r, Len(b) + 1) * Base + Limb(r, Len(b))
    IN  IF rt \div b[Len(b)] < Base THEN rt \div b[Len(b)] ELSE Base - 1
QLow(r, b) == (Limb(r, Len(b) + 1) * Base + Limb(r, Len(b))) \div (b[Len(b)] + 1)

RECURSIVE DivFrom(_, _, _, _)
\* long division, from limb i of a down to limb 1; r is the running remainder
DivFrom(a, b, i, r) ==
    IF i = 0 THEN [q |-> <<>>, r |-> r]
    ELSE IF BLt(Norm(<<a[i]>> \o r), b)
    THEN LET rest == DivFrom(a, b, i - 1, Norm(<<a[i]>> \o r))
         IN  [q |-> rest.q \o <<0>>, r |-> rest.r]
    ELSE LET r1   == Norm(<<a[i]>> \o r)
             d    == QDigit(r1, b, QLow(r1, b), QHigh(r1, b))
             rest == DivFrom(a, b, i - 1, BSub(r1, BMulS(b, d)))
         IN  [q |-> rest.q \o <<d>>, r |-> rest.r]

RECURSIVE DivSFrom(_, _, _, _)
\* the same for a divisor k small enough for TLC's own integers
DivSFrom(a, k, i, r) ==
    IF i = 0 THEN [q |-> <<>>, r |-> N(r)]
    ELSE IF r * Base + a[i] < k
    THEN LET rest == DivSFrom(a, k, i - 1, r * Base + a[i])
         IN  [q |-> rest.q \o <<0>>, r |-> rest.r]
    ELSE LET t    == r * Base + a[i]
             rest == DivSFrom(a, k, i - 1, t % k)
         IN  [q |-> rest.q \o <<t \div k>>, r |-> rest.r]

IsSmall(b) == Len(b) <= 1 \/ (Len(b) = 2 /\ b[2] < 20)

RECURSIVE ToInt(_)
\* the TLC integer of a wide natural below 2^31
ToInt(a) == IF a = <<>> THEN 0 ELSE a[1] + Base * ToInt(Tail(a))

DivMod(a, b) == IF IsSmall(b) THEN DivSFrom(a, ToInt(b), Len(a), 0)
                ELSE DivFrom(a, b, Len(a), <<>>)

\* floor(a / b) and a mod b, for b > 0
BDiv(a, b) == Norm(DivMod(a, b).q)
BMod(a, b) == DivMod(a, b).r

Zero == <<>>

\* u64::MAX = 18446744073709551615, u128::MAX = 2^128 - 1, u32::MAX = 4294967295
U64Max  == Lit(<<1844, 6744, 737, 955, 1615>>)
U128Max == Lit(<<340, 2823, 6692, 938, 4634, 6337, 4607, 4317, 6821, 1455>>)
U32Max  == Lit(<<42, 9496, 7295>>)
TwoPow64 == BAdd(U64Max, N(1))

\* Result<T>: Ok(value) or Err(code)
Ok(v)  == [ok |-> TRUE,  value |-> v,    err |-> "-"]
Err(e) == [ok |-> FALSE, value |-> Zero, err |-> e]
NoResult == Err("NotCalled")

\* Option<T> of the checked operations: <<>> is None, <<v>> is Some(v)
Fits(x, max)          == IF BLe(x, max) THEN <<x>> ELSE <<>>
CheckedAdd(a, b, max) == Fits(BAdd(a, b), max)
CheckedSub(a, b)      == IF BLe(b, a) THEN <<BSub(a, b)>> ELSE <<>>
SaturatingSub(a, b)   == IF BLe(b, a) THEN BSub(a, b) ELSE Zero
BMin(a, b)            == IF BLe(a, b) THEN a ELSE b
\* `x as u64` of a u128 value
AsU64(x)              == IF BLe(x, U64Max) THEN x ELSE BMod(x, TwoPow64)

-----------------------------------------------------------------------------
(* PerformanceScorer: instructions/update_performance.rs                   *)
(* (a value that is used more than once is handed on as an argument)       *)

RECURSIVE BitLen(_)
\* 64 - x.leading_zeros(): the number of binary digits of x
BitLen(x) == IF x = Zero THEN 0 ELSE 1 + BitLen(BDiv(x, N(2)))

\* `x.checked_add(half).ok_or(BalanceOverflow)?` followed by `/ divisor) as u64`
RoundedQuotient(numerator, divisor) ==
    IF numerator = <<>> THEN Err("BalanceOverflow")
    ELSE Ok(AsU64(BDiv(numerator[1], divisor)))

\* mutant: the clamp of yield rates above 50000 is left out
NormalizedYield_NoClamp(yield_rate) ==
    RoundedQuotient(CheckedAdd(BMul(yield_rate, N(10000)), N(25000), U128Max), N(50000))

NormalizedYield(yield_rate) ==
    IF BLt(N(50000), yield_rate)
    THEN Ok(N(10000))
    ELSE RoundedQuotient(CheckedAdd(BMul(yield_rate, N(10000)), N(25000), U128Max),
                         N(50000))

LogScaled(bit_pos) == BMin(BMul(SaturatingSub(bit_pos, N(1)), N(1443)), N(10000))

LogApproxScaled(balance_scaled) ==
    IF BLe(balance_scaled, N(1)) THEN Zero ELSE LogScaled(N(BitLen(balance_scaled)))

LogApprox(balance) == LogApproxScaled(BDiv(balance, Lit(<<1, 0, 0>>)))

NormalizedBalance(balance) ==
    IF balance = Zero
    THEN Ok(Zero)
    ELSE IF BLe(Lit(<<1000, 0, 0>>), balance)
    THEN Ok(N(10000))
    ELSE IF BLt(balance, Lit(<<1, 0, 0>>))
    THEN RoundedQuotient(CheckedAdd(BMul(balance, N(1000)), N(50000000), U128Max),
                         Lit(<<1, 0, 0>>))
    ELSE Ok(LogApprox(balance))

\* mutant: the volatility is not inverted
NormalizedInverseVolatility_NotInverted(volatility) == BMin(volatility, N(10000))

NormalizedInverseVolatility(volatility) ==
    SaturatingSub(N(10000), BMin(volatility, N(10000)))

\* (normalized * weight + 5000) / 10000 in u128
WeightedComponent(normalized, weight) ==
    RoundedQuotient(CheckedAdd(BMul(normalized, N(weight)), N(5000), U128Max), N(10000))

\* `require!(performance_score <= 10000, ...)`
BoundedScore(performance_score) ==
    IF performance_score = <<>> THEN Err("BalanceOverflow")
    ELSE IF ~BLe(performance_score[1], N(10000)) THEN Err("BalanceOverflow")
    ELSE Ok(performance_score[1])

\* mutant: the volatility component is not added to the sum
AddVolatilityComponent_Dropped(partial, volatility_component) == partial

AddVolatilityComponent(partial, volatility_component) ==
    IF partial = <<>> THEN <<>>
    ELSE CheckedAdd(partial[1], volatility_component, U64Max)

CompositeScore(yc, bc, vc) ==
    IF ~yc.ok THEN yc
    ELSE IF ~bc.ok THEN bc
    ELSE IF ~vc.ok THEN vc
    ELSE BoundedScore(AddVolatilityComponent(CheckedAdd(yc.value, bc.value, U64Max),
                                             vc.value))

WeightedComposite(ny, nb, nv) ==
    IF ~ny.ok THEN ny
    ELSE IF ~nb.ok THEN nb
    ELSE IF ~BLe(ny.value, N(10000)) THEN Err("BalanceOverflow")
    ELSE IF ~BLe(nb.value, N(10000)) THEN Err("BalanceOverflow")
    ELSE IF ~BLe(nv, N(10000)) THEN Err("BalanceOverflow")
    ELSE CompositeScore(WeightedComponent(ny.value, 4500),
                        WeightedComponent(nb.value, 3500),
                        WeightedComponent(nv, 2000))

calculate_performance_score(yield_rate, balance, volatility) ==
    WeightedComposite(NormalizedYield(yield_rate), NormalizedBalance(balance),
                      NormalizedInverseVolatility(volatility))

-----------------------------------------------------------------------------
(* Accounts: state.rs                                                      *)

\* Pubkey::default() (all zero bytes) and the other keys of the model
DefaultPubkey == "Pubkey::default"

\* ProtocolType with the fields the engine reads (the Pubkey fields of a
\* variant are read by ProtocolType::validate only)
StableLending(utilization) ==
    [kind |-> "StableLending", utilization |-> utilization, reward_multiplier |-> 0,
     fee_tier |-> 0, commission |-> 0, unstake_delay |-> 0]
YieldFarming(reward_multiplier, fee_tier) ==
    [kind |-> "YieldFarming", utilization |-> 0, reward_multiplier |-> reward_multiplier,
     fee_tier |-> fee_tier, commission |-> 0, unstake_delay |-> 0]
LiquidStaking(commission, unstake_delay) ==
    [kind |-> "LiquidStaking", utilization |-> 0, reward_multiplier |-> 0,
     fee_tier |-> 0, commission |-> commission, unstake_delay |-> unstake_delay]

\* an i64 value (a unix timestamp, an interval, impermanent_loss) as sign and
\* magnitude; zero has neg = FALSE
I64(neg, mag) == [neg |-> neg /\ mag # Zero, mag |-> mag]

\* `x as i64` of a non-negative x: the low 64 bits read in two's complement
AsI64(x) ==
    IF BLt(AsU64(x), BDiv(TwoPow64, N(2))) THEN I64(FALSE, AsU64(x))
    ELSE I64(TRUE, BSub(TwoPow64, AsU64(x)))

I64Max == I64(FALSE, BSub(BDiv(TwoPow64, N(2)), N(1)))
I64Min == I64(TRUE, BDiv(TwoPow64, N(2)))

\* the i64 of a non-negative number of seconds
Seconds(k) == I64(FALSE, N(k))

\* a + b and a - b of two i64 values, exactly
I64Sum(a, b) ==
    IF a.neg = b.neg THEN I64(a.neg, BAdd(a.mag, b.mag))
    ELSE IF BLe(b.mag, a.mag) THEN I64(a.neg, BSub(a.mag, b.mag))
    ELSE I64(b.neg, BSub(b.mag, a.mag))
I64Difference(a, b) == I64Sum(a, I64(~b.neg, b.mag))

\* a >= b
I64Ge(a, b) == ~I64Difference(a, b).neg

\* i64::saturating_add and i64::saturating_sub
I64Saturated(x) ==
    IF ~I64Ge(I64Max, x) THEN I64Max ELSE IF ~I64Ge(x, I64Min) THEN I64Min ELSE x
SaturatingAddI64(a, b) == I64Saturated(I64Sum(a, b))
SaturatingSubI64(a, b) == I64Saturated(I64Difference(a, b))

\* the Strategy account before register_strategy has initialised it
NoStrategy ==
    [strategy_id |-> DefaultPubkey, protocol_type |-> StableLending(0),
     current_balance |-> Zero, yield_rate |-> Zero, volatility_score |-> Zero,
     performance_score |-> Zero, percentile_rank |-> 0, last_updated |-> Seconds(0),
     status |-> "Uninitialized", total_deposits |-> Zero, total_withdrawals |-> Zero,
     creation_time |-> Seconds(0)]

\* the Strategy account as register_strategy leaves it
RegisteredStrategy(strategy_id, protocol_type, initial_balance, current_time) ==
    [strategy_id |-> strategy_id, protocol_type |-> protocol_type,
     current_balance |-> initial_balance, yield_rate |-> Zero,
     volatility_score |-> N(5000), performance_score |-> Zero,
     percentile_rank |-> 50, last_updated |-> current_time,
     status |-> "Active", total_deposits |-> initial_balance,
     total_withdrawals |-> Zero, creation_time |-> current_time]

\* the CapitalPosition account before anything has been written to it
NoPosition ==
    [strategy_id |-> DefaultPubkey, token_a_amount |-> Zero, token_b_amount |-> Zero,
     lp_tokens |-> Zero, platform_controlled_lp |-> Zero, position_type |-> "SingleAsset",
     entry_price_a |-> Zero, entry_price_b |-> Zero,
     last_rebalance |-> Seconds(0),
     accrued_fees |-> Zero, impermanent_loss |-> I64(FALSE, Zero)]

\* the Portfolio account before initialize_portfolio has written it
NoPortfolio ==
    [manager |-> DefaultPubkey, rebalance_threshold |-> 0, total_strategies |-> Zero,
     total_capital_moved |-> Zero, last_rebalance |-> Seconds(0),
     min_rebalance_interval |-> Seconds(0), portfolio_creation |-> Seconds(0),
     emergency_pause |-> FALSE, performance_fee_bps |-> 0]

\* the Portfolio account as initialize_portfolio leaves it
InitializedPortfolio(manager, rebalance_threshold, min_rebalance_interval, current_time) ==
    [manager |-> manager, rebalance_threshold |-> rebalance_threshold,
     total_strategies |-> Zero, total_capital_moved |-> Zero,
     last_rebalance |-> current_time,
     min_rebalance_interval |-> min_rebalance_interval,
     portfolio_creation |-> current_time, emergency_pause |-> FALSE,
     performance_fee_bps |-> 200]

validate_yield_rate(rate)       == BLe(rate, N(50000))
validate_volatility_score(s)    == BLe(s, N(10000))
validate_balance_update(b)      == BLt(b, BDiv(U64Max, N(1000)))

-----------------------------------------------------------------------------
(* The scorer's specification: direct calls of calculate_performance_score *)
(* on arguments drawn from the sets below, and update_performance on a     *)
(* registered strategy.                                                    *)

YieldRates   == {Zero, N(2), N(3), N(500), N(10000), N(20000), N(50000), N(50001), U64Max}
Balances     == {Zero, N(49999), N(99999999), Lit(<<1, 0, 0>>), Lit(<<2, 0, 0>>),
                 Lit(<<500, 0, 0>>), Lit(<<999, 9999, 9999>>), Lit(<<1000, 0, 0>>),
                 Lit(<<1000, 0, 1>>), U64Max}
Volatilities == {Zero, N(1000), N(5000), N(9000), N(10000), N(10001), U32Max}

ScoreArgs == [yield_rate : YieldRates, balance : Balances, volatility : Volatilities]

IdleScorer == sc_in = <<>> /\ sc_out = NoResult /\ sc_prev = <<>>
IdleAccounts ==
    /\ strategy = NoStrategy /\ position = NoPosition
    /\ ix_result = NoResult /\ pre = <<>>
IdlePlanner == al_in = <<>> /\ al_out = NoResult
IdlePortfolio == portfolio = NoPortfolio

InitScoreDirect ==
    /\ pc = "ready"
    /\ sc_in \in {<<a>> : a \in ScoreArgs}
    /\ sc_out = NoResult /\ sc_prev = <<>>
    /\ IdleAccounts

InitScoreUpdate ==
    /\ pc = "idle"
    /\ IdleScorer
    /\ \E b \in {Lit(<<1, 0, 0>>), Lit(<<10, 0, 0>>)} :
          strategy = RegisteredStrategy("S1", StableLending(5000), b, now)
    /\ position = NoPosition /\ ix_result = NoResult /\ pre = <<>>

ScoreInit ==
    /\ overflow_checks = TRUE
    /\ now = Seconds(1000)
    /\ IdlePlanner /\ IdlePortfolio
    /\ (InitScoreDirect \/ InitScoreUpdate)

\* a caller evaluates calculate_performance_score(sc_in)
ScoreCall ==
    /\ pc = "ready" /\ sc_in # <<>>
    /\ sc_out' = calculate_performance_score(sc_in[1].yield_rate, sc_in[1].balance,
                                              sc_in[1].volatility)
    /\ pc' = "done"
    /\ UNCHANGED <<overflow_checks, portfolio, sc_in, sc_prev, strategy, position, now,
                   ix_result, pre, al_in, al_out>>

OneArgumentDiffers(a, b) ==
    \/ a.yield_rate # b.yield_rate /\ a.balance = b.balance /\ a.volatility = b.volatility
    \/ a.yield_rate = b.yield_rate /\ a.balance # b.balance /\ a.volatility = b.volatility
    \/ a.yield_rate = b.yield_rate /\ a.balance = b.balance /\ a.volatility # b.volatility

\* the caller sets up a second call that differs from the first in one argument
ScoreAgain ==
    /\ pc = "done" /\ sc_in # <<>> /\ sc_prev = <<>>
    /\ \E a \in ScoreArgs :
          /\ OneArgumentDiffers(sc_in[1], a)
          /\ sc_in' = <<a>>
    /\ sc_prev' = <<[in |-> sc_in[1], out |-> sc_out]>>
    /\ sc_out' = NoResult
    /\ pc' = "ready"
    /\ UNCHANGED <<overflow_checks, portfolio, strategy, position, now, ix_result, pre,
                   al_in, al_out>>

\* instruction update_performance(strategy_id, yield_rate, volatility_score,
\* current_balance); a failed instruction leaves the account as it was
\* (the runtime discards the writes of a transaction that returns Err)
UpdateFailure(yield_rate, volatility_score, current_balance, score) ==
    IF ~validate_yield_rate(yield_rate) THEN "ExcessiveYieldRate"
    ELSE IF ~validate_volatility_score(volatility_score) THEN "InvalidVolatilityScore"
    ELSE IF ~validate_balance_update(current_balance) THEN "BalanceOverflow"
    ELSE IF strategy.status # "Active" THEN "StrategyNotFound"
    ELSE IF ~score.ok THEN score.err
    ELSE "-"

UpdateCommit(yield_rate, volatility_score, current_balance, score, failure) ==
    IF failure # "-"
    THEN /\ ix_result' = Err(failure)
         /\ UNCHANGED strategy
    ELSE /\ ix_result' = Ok(Zero)
         /\ strategy' = [strategy EXCEPT
                            !.yield_rate = yield_rate,
                            !.volatility_score = volatility_score,
                            !.current_balance = current_balance,
                            !.last_updated = now,
                            !.performance_score = score.value]

UpdateWithScore(yield_rate, volatility_score, current_balance, score) ==
    UpdateCommit(yield_rate, volatility_score, current_balance, score,
                 UpdateFailure(yield_rate, volatility_score, current_balance, score))

update_performance(yield_rate, volatility_score, current_balance) ==
    /\ pc = "idle" /\ strategy.status # "Uninitialized"
    /\ pre' = <<[op |-> "update_performance", strategy |-> strategy,
                  position |-> position]>>
    /\ UpdateWithScore(yield_rate, volatility_score, current_balance,
                       calculate_performance_score(yield_rate, current_balance,
                                                   volatility_score))
    /\ pc' = "returned"
    /\ UNCHANGED <<overflow_checks, portfolio, sc_in, sc_out, sc_prev, position, now,
                   al_in, al_out>>

UpdatePerformance ==
    \E y \in YieldRates, v \in Volatilities, b \in Balances :
        update_performance(y, v, b)

ScoreNext == ScoreCall \/ ScoreAgain \/ UpdatePerformance

ScoreSpec == ScoreInit /\ [][ScoreNext]_vars

\* the second call differs from the first in the named argument only
Called         == pc = "done" /\ sc_in # <<>>
CalledTwice    == Called /\ sc_prev # <<>>
VariedYield    == CalledTwice /\ sc_prev[1].in.yield_rate # sc_in[1].yield_rate
VariedBalance  == CalledTwice /\ sc_prev[1].in.balance # sc_in[1].balance
VariedVolatility == CalledTwice /\ sc_prev[1].in.volatility # sc_in[1].volatility

\* C5: calculate_performance_score returns, for every yield_rate, balance and
\* volatility, a score (never an error) that is at most 10000, and the
\* performance_score that update_performance stores is at most 10000.
C5_ScoreInRange ==
    /\ Called => (sc_out.ok /\ BLe(sc_out.value, N(10000)))
    /\ BLe(strategy.performance_score, N(10000))

\* update_performance has stored the largest score there is
C5_Witness ==
    /\ pc = "returned" /\ ix_result.ok
    /\ strategy.yield_rate = N(50000) /\ strategy.volatility_score = Zero
    /\ strategy.performance_score = N(10000)

\* C6: with yield_rate and volatility fixed, a larger balance never gets a
\* smaller score.
C6_MonotoneInBalance ==
    (VariedBalance /\ sc_prev[1].out.ok /\ sc_out.ok
       /\ BLe(sc_prev[1].in.balance, sc_in[1].balance))
    => BLe(sc_prev[1].out.value, sc_out.value)

\* C7: with the other two arguments fixed, a larger yield_rate never gets a
\* smaller score and a larger volatility never gets a larger score.
C7_MonotoneInYieldAndVolatility ==
    /\ (VariedYield /\ BLe(sc_prev[1].in.yield_rate, sc_in[1].yield_rate))
         => (sc_prev[1].out.ok /\ sc_out.ok
               /\ BLe(sc_prev[1].out.value, sc_out.value))
    /\ (VariedVolatility /\ BLe(sc_prev[1].in.volatility, sc_in[1].volatility))
         => (sc_prev[1].out.ok /\ sc_out.ok
               /\ BLe(sc_out.value, sc_prev[1].out.value))

\* a yield inside the range was followed by one above it (clamped), and the
\* score grew
C7_Witness ==
    /\ VariedYield
    /\ sc_prev[1].in.yield_rate = N(20000) /\ sc_in[1].yield_rate = U64Max
    /\ sc_prev[1].out.ok /\ sc_out.ok
    /\ BLt(sc_prev[1].out.value, sc_out.value)

\* C8: calculate_performance_score(10000, 0, 5000) returns exactly 5000.
C8_ZeroBalanceScoreIs5000 ==
    (Called /\ sc_in[1] = [yield_rate |-> N(10000), balance |-> Zero,
                           volatility |-> N(5000)])
    => sc_out = Ok(N(5000))

\* C9: calculate_performance_score(50000, b, 0) returns exactly 10000 for every
\* b >= 100,000,000,000, and calculate_performance_score(0, 100,000,000, 10000)
\* returns a score below 5000.
C9_MaximumAndMinimumCase ==
    /\ (Called /\ sc_in[1].yield_rate = N(50000) /\ sc_in[1].volatility = Zero
           /\ BLe(Lit(<<1000, 0, 0>>), sc_in[1].balance))
         => sc_out = Ok(N(10000))
    /\ (Called /\ sc_in[1] = [yield_rate |-> Zero, balance |-> Lit(<<1, 0, 0>>),
                               volatility |-> N(10000)])
         => (sc_out.ok /\ BLt(sc_out.value, N(5000)))

\* the call with the largest balance there is has returned 10000
C9_Witness ==
    /\ Called
    /\ sc_in[1] = [yield_rate |-> N(50000), balance |-> U64Max, volatility |-> Zero]
    /\ sc_out = Ok(N(10000))


-----------------------------------------------------------------------------
(* AllocationPlanner: instructions/redistribute_capital.rs                 *)

\* a plain u64 `a * b`: the wrapped product, and whether it overflowed (the
\* build panics there with overflow-checks on and wraps with them off)
Wrap64(product) == [v |-> AsU64(product), overflow |-> ~BLe(product, U64Max)]
Mul64(a, b)     == Wrap64(BMul(a, b))
Add64(a, b)     == Wrap64(BAdd(a, b))
Panics(m)       == overflow_checks /\ m.overflow

AsU32(x) == IF BLe(x, U32Max) THEN x ELSE BMod(x, BAdd(U32Max, N(1)))

RiskLimits(max_bps, min_bps, platform_fee_bps, manager_fee_bps, risk_tolerance_bps, platform_treasury, manager_treasury) ==
    [max_single_strategy_bps |-> max_bps, min_single_strategy_bps |-> min_bps,
     platform_fee_bps |-> platform_fee_bps, manager_fee_bps |-> manager_fee_bps,
     risk_tolerance_bps |-> risk_tolerance_bps,
     platform_treasury |-> platform_treasury, manager_treasury |-> manager_treasury]

\* impl Default for RiskLimits
RiskLimitsDefault ==
    RiskLimits(N(4000), N(100), N(50), N(150), N(8000), DefaultPubkey, DefaultPubkey)

StrategyPerformanceData(strategy_id, performance_score, current_balance, volatility_score, protocol_type, percentile_rank) ==
    [strategy_id |-> strategy_id, performance_score |-> performance_score,
     current_balance |-> current_balance, volatility_score |-> volatility_score,
     protocol_type |-> protocol_type, percentile_rank |-> percentile_rank]

CapitalAllocation(strategy_id, amount, allocation_type) ==
    [strategy_id |-> strategy_id, amount |-> amount, allocation_type |-> allocation_type]

\* risk_multiplier as u64 * risk_tolerance_bps
RiskProduct(volatility_score, risk_limits) ==
    Mul64(BAdd(N(5000),
               AsU32(BDiv(BMul(SaturatingSub(N(10000), BMin(volatility_score, N(10000))),
                               N(15000 - 5000)),
                          N(10000)))),
          risk_limits.risk_tolerance_bps)

calculate_risk_adjustment(volatility_score, risk_limits) ==
    BMin(AsU32(BDiv(RiskProduct(volatility_score, risk_limits).v, N(10000))), N(15000))

\* the minimum ticket of the match on strategy.protocol_type
ProtocolMinimum(kind) ==
    IF kind = "StableLending" THEN Lit(<<1, 0, 0>>)
    ELSE IF kind = "YieldFarming" THEN Lit(<<5, 0, 0>>)
    ELSE Lit(<<10, 0, 0>>)

FeeEntry(treasury, fee, allocation_type) ==
    IF fee # Zero THEN <<CapitalAllocation(treasury, fee, allocation_type)>> ELSE <<>>

FeeAllocations(risk_limits, platform_fee, manager_fee) ==
    FeeEntry(risk_limits.platform_treasury, platform_fee, "PlatformFee")
        \o FeeEntry(risk_limits.manager_treasury, manager_fee, "ManagerIncentive")

RECURSIVE TotalPerformanceScore(_)
TotalPerformanceScore(top_strategies) ==
    IF top_strategies = <<>> THEN Zero
    ELSE BAdd(Head(top_strategies).performance_score,
              TotalPerformanceScore(Tail(top_strategies)))

\* the allocation of one strategy up to the minimum checks: <<>> is `continue`
CappedAllocation(performance_allocation, max_single_allocation) ==
    IF BLt(max_single_allocation, performance_allocation)
    THEN max_single_allocation ELSE performance_allocation

AboveMinimums(allocation_amount, min_single_allocation, kind) ==
    IF BLt(allocation_amount, min_single_allocation) THEN <<>>
    ELSE IF BLt(allocation_amount, ProtocolMinimum(kind)) THEN <<>>
    ELSE <<allocation_amount>>

\* the risk adjustment and the clamp to the remaining capital
RiskAdjusted(sized, risk_adjustment, remaining_capital) ==
    IF sized = <<>> THEN <<>>
    ELSE <<BMin(AsU64(BDiv(BMul(sized[1], risk_adjustment), N(10000))),
                remaining_capital)>>

\* c: the values fixed for the whole loop; index: the 0-based loop index.
\* The allocation of strategy `index` after the cap and the minimum checks
Sized(c, index, remaining_capital) ==
    AboveMinimums(
        CappedAllocation(
            AsU64(BDiv(BMul(remaining_capital,
                            c.top_strategies[index + 1].performance_score),
                       c.total_performance_score)),
            BDiv(c.max_product.v, N(10000))),
        BDiv(c.min_product.v, N(10000)),
        c.top_strategies[index + 1].protocol_type.kind)

AllocationAmount(c, index, remaining_capital) ==
    RiskAdjusted(Sized(c, index, remaining_capital),
                 calculate_risk_adjustment(c.top_strategies[index + 1].volatility_score,
                                           c.risk_limits),
                 remaining_capital)

Granted(amount) == IF amount = <<>> THEN Zero ELSE amount[1]

Pushed(c, index, allocations, amount) ==
    IF Granted(amount) = Zero THEN allocations
    ELSE Append(allocations,
                CapitalAllocation(c.top_strategies[index + 1].strategy_id, amount[1],
                                  IF index < 3 THEN "TopPerformer"
                                  ELSE "RiskDiversification"))

IterationPanics(c, index, remaining_capital) ==
    \/ Panics(c.max_product)
    \/ Panics(c.min_product)
    \/ /\ Sized(c, index, remaining_capital) # <<>>
       /\ Panics(RiskProduct(c.top_strategies[index + 1].volatility_score,
                             c.risk_limits))

RECURSIVE AllocationLoop(_, _, _, _)
\* `for (index, strategy) in top_strategies.iter().enumerate()`
AllocationLoop(c, index, allocations, remaining_capital) ==
    IF index >= Len(c.top_strategies) \/ remaining_capital = Zero
    THEN [panicked |-> FALSE, allocations |-> allocations,
          remaining_capital |-> remaining_capital]
    ELSE IF IterationPanics(c, index, remaining_capital)
    THEN [panicked |-> TRUE, allocations |-> allocations,
          remaining_capital |-> remaining_capital]
    ELSE AllocationLoop(c, index + 1,
             Pushed(c, index, allocations,
                    AllocationAmount(c, index, remaining_capital)),
             SaturatingSub(remaining_capital,
                           Granted(AllocationAmount(c, index, remaining_capital))))

TopPerformers(allocations) ==
    {i \in 1..Len(allocations) : allocations[i].allocation_type = "TopPerformer"}

\* the index `find` returns, 0 for None
FirstTopPerformer(allocations) ==
    IF TopPerformers(allocations) = {} THEN 0
    ELSE CHOOSE i \in TopPerformers(allocations) :
             \A j \in TopPerformers(allocations) : i <= j

AddDust(allocations, i, new_amount) ==
    IF new_amount = <<>> THEN Err("BalanceOverflow")
    ELSE Ok([allocations EXCEPT ![i].amount = new_amount[1]])

\* mutant: the dust goes to the first entry of the list, whatever its type
DustTopUp_FirstEntry(allocations, remaining_capital) ==
    IF BLt(N(1000000), remaining_capital) /\ allocations # <<>>
    THEN AddDust(allocations, 1,
                 CheckedAdd(allocations[1].amount, remaining_capital, U64Max))
    ELSE Ok(allocations)

\* REDISTRIBUTE ANY REMAINING DUST TO TOP PERFORMER
DustTopUp(allocations, remaining_capital) ==
    IF BLt(N(1000000), remaining_capital) /\ allocations # <<>>
          /\ FirstTopPerformer(allocations) # 0
    THEN AddDust(allocations, FirstTopPerformer(allocations),
                 CheckedAdd(allocations[FirstTopPerformer(allocations)].amount,
                            remaining_capital, U64Max))
    ELSE Ok(allocations)

\* the state of the function when the loop is left
LoopContext(available_capital, top_strategies, risk_limits) ==
    [top_strategies |-> top_strategies, risk_limits |-> risk_limits,
     total_performance_score |-> TotalPerformanceScore(top_strategies),
     max_product |-> Mul64(available_capital, risk_limits.max_single_strategy_bps),
     min_product |-> Mul64(available_capital, risk_limits.min_single_strategy_bps)]

MainLoopWithFees(available_capital, top_strategies, risk_limits, platform_fee, manager_fee) ==
    AllocationLoop(LoopContext(available_capital, top_strategies, risk_limits), 0,
                   FeeAllocations(risk_limits, platform_fee, manager_fee),
                   SaturatingSub(SaturatingSub(available_capital, platform_fee),
                                 manager_fee))

PlatformFeeProduct(available_capital, risk_limits) ==
    Mul64(available_capital, risk_limits.platform_fee_bps)
ManagerFeeProduct(available_capital, risk_limits) ==
    Mul64(available_capital, risk_limits.manager_fee_bps)

MainLoop(available_capital, top_strategies, risk_limits) ==
    MainLoopWithFees(available_capital, top_strategies, risk_limits,
                     BDiv(PlatformFeeProduct(available_capital, risk_limits).v, N(10000)),
                     BDiv(ManagerFeeProduct(available_capital, risk_limits).v, N(10000)))

AfterLoop(loop) ==
    IF loop.panicked THEN Err("panic: arithmetic overflow")
    ELSE DustTopUp(loop.allocations, loop.remaining_capital)

\* mutant: candidates without any score still get the fee entries
calculate_optimal_allocation_FeesOnZeroScore(available_capital, top_strategies, risk_limits) ==
    IF available_capital = Zero THEN Err("InsufficientBalance")
    ELSE IF top_strategies = <<>> THEN Err("InsufficientStrategies")
    ELSE IF \/ Panics(PlatformFeeProduct(available_capital, risk_limits))
            \/ Panics(ManagerFeeProduct(available_capital, risk_limits))
    THEN Err("panic: arithmetic overflow")
    ELSE IF TotalPerformanceScore(top_strategies) = Zero
    THEN Ok(FeeAllocations(risk_limits,
                           BDiv(PlatformFeeProduct(available_capital, risk_limits).v,
                                N(10000)),
                           BDiv(ManagerFeeProduct(available_capital, risk_limits).v,
                                N(10000))))
    ELSE AfterLoop(MainLoop(available_capital, top_strategies, risk_limits))

calculate_optimal_allocation(available_capital, top_strategies, risk_limits) ==
    IF available_capital = Zero THEN Err("InsufficientBalance")
    ELSE IF top_strategies = <<>> THEN Err("InsufficientStrategies")
    ELSE IF \/ Panics(PlatformFeeProduct(available_capital, risk_limits))
            \/ Panics(ManagerFeeProduct(available_capital, risk_limits))
    THEN Err("panic: arithmetic overflow")
    ELSE IF TotalPerformanceScore(top_strategies) = Zero
    THEN Err("InvalidPerformanceScore")
    ELSE AfterLoop(MainLoop(available_capital, top_strategies, risk_limits))

\* ALLOCATION VALIDATION
RECURSIVE ValidateFrom(_, _, _, _)
\* `for allocation in allocations`, from the i-th entry on
ValidateFrom(allocations, i, total, strategy_ids) ==
    IF i > Len(allocations) THEN Ok(total)
    ELSE IF allocations[i].strategy_id \in strategy_ids THEN Err("DuplicateStrategy")
    ELSE IF allocations[i].amount = Zero THEN Err("InsufficientBalance")
    ELSE IF ~BLt(allocations[i].amount, BDiv(U64Max, N(1000))) THEN Err("BalanceOverflow")
    ELSE IF CheckedAdd(total, allocations[i].amount, U64Max) = <<>>
    THEN Err("BalanceOverflow")
    ELSE ValidateFrom(allocations, i + 1, BAdd(total, allocations[i].amount),
                      strategy_ids \cup {allocations[i].strategy_id})

validate_allocations(allocations) == ValidateFrom(allocations, 1, Zero, {})

\* what an instruction on the Portfolio account leaves: the value returned and
\* the account
Outcome(result, account) == [result |-> result, portfolio |-> account]

\* mutant: an overflowing counter is left at u64::MAX
CapitalMoved_Saturating(account, total_capital_moved) ==
    IF total_capital_moved = <<>>
    THEN Outcome(Err("BalanceOverflow"), [account EXCEPT !.total_capital_moved = U64Max])
    ELSE Outcome(Ok(Zero),
                 [account EXCEPT !.total_capital_moved = total_capital_moved[1]])

CapitalMoved(account, total_capital_moved) ==
    IF total_capital_moved = <<>> THEN Outcome(Err("BalanceOverflow"), account)
    ELSE Outcome(Ok(Zero),
                 [account EXCEPT !.total_capital_moved = total_capital_moved[1]])

Redistributed(account, total_allocated) ==
    IF ~total_allocated.ok THEN Outcome(total_allocated, account)
    ELSE CapitalMoved(account,
                      CheckedAdd(account.total_capital_moved, total_allocated.value,
                                 U64Max))

\* the instruction redistribute_capital on the Portfolio account
redistribute_capital(account, allocations) ==
    IF account.emergency_pause THEN Outcome(Err("EmergencyPaused"), account)
    ELSE IF allocations = <<>> THEN Outcome(Err("InsufficientStrategies"), account)
    ELSE IF Len(allocations) > 20 THEN Outcome(Err("TooManyStrategies"), account)
    ELSE Redistributed(account, validate_allocations(allocations))

RebalancingPlan(extraction_targets, total_to_extract, redistribution_plan, estimated_fees, expected_improvement) ==
    [extraction_targets |-> extraction_targets, total_to_extract |-> total_to_extract,
     redistribution_plan |-> redistribution_plan, estimated_fees |-> estimated_fees,
     expected_improvement |-> expected_improvement]

RECURSIVE Sum64(_, _)
\* `.sum()` of u64 values: the wrapped sum, and whether an addition overflowed
Sum64(values, acc) ==
    IF values = <<>> THEN acc
    ELSE Sum64(Tail(values),
               [v |-> Add64(acc.v, Head(values)).v,
                overflow |-> acc.overflow \/ Add64(acc.v, Head(values)).overflow])

Scores(top_performers) ==
    [i \in 1..Len(top_performers) |-> top_performers[i].performance_score]

\* (average_top_score * 15) / 100, from the sum of the scores
ImprovementOf(sum, len) ==
    IF Panics(sum) \/ Panics(Mul64(BDiv(sum.v, N(len)), N(15)))
    THEN Err("panic: arithmetic overflow")
    ELSE Ok(BDiv(Mul64(BDiv(sum.v, N(len)), N(15)).v, N(100)))

calculate_expected_improvement(top_performers) ==
    IF top_performers = <<>> THEN Ok(Zero)
    ELSE ImprovementOf(Sum64(Scores(top_performers), [v |-> Zero, overflow |-> FALSE]),
                       Len(top_performers))

\* mutant: a strategy at the threshold counts as an underperformer
Underperformers_Inclusive(account, strategies) ==
    SelectSeq(strategies, LAMBDA s : s.percentile_rank <= account.rebalance_threshold)

\* STEP 1: IDENTIFY UNDERPERFORMERS
Underperformers(account, strategies) ==
    SelectSeq(strategies, LAMBDA s : s.percentile_rank < account.rebalance_threshold)

TopQuartile(strategies) == SelectSeq(strategies, LAMBDA s : s.percentile_rank >= 75)

\* mutant: every strategy of the top quartile is a top performer
TopFive_All(strategies) == TopQuartile(strategies)

\* STEP 2: IDENTIFY TOP PERFORMERS
TopFive(strategies) ==
    IF Len(TopQuartile(strategies)) <= 5 THEN TopQuartile(strategies)
    ELSE SubSeq(TopQuartile(strategies), 1, 5)

\* current_balance.saturating_sub(10_000_000) of every underperformer
Extractable(underperformers) ==
    [i \in 1..Len(underperformers) |->
        SaturatingSub(underperformers[i].current_balance, Lit(<<1000, 0>>))]

\* STEP 3: CALCULATE TOTAL EXTRACTABLE CAPITAL
TotalExtractable(underperformers) ==
    Sum64(Extractable(underperformers), [v |-> Zero, overflow |-> FALSE])

StrategyIds(strategies) == [i \in 1..Len(strategies) |-> strategies[i].strategy_id]

\* Ok(RebalancingPlan { .. }): the fields are evaluated in the order written
PlanOf(underperformers, top_performers, total_extractable, allocations, estimated_fees, expected_improvement) ==
    IF Panics(estimated_fees) \/ ~expected_improvement.ok
    THEN Err("panic: arithmetic overflow")
    ELSE Ok(RebalancingPlan(StrategyIds(underperformers), total_extractable,
                            allocations, BDiv(estimated_fees.v, N(10000)),
                            expected_improvement.value))

\* STEP 4: GENERATE OPTIMAL ALLOCATION
Planned(underperformers, top_performers, total_extractable, allocations) ==
    IF ~allocations.ok THEN allocations
    ELSE PlanOf(underperformers, top_performers, total_extractable, allocations.value,
                Mul64(total_extractable, N(200)),
                calculate_expected_improvement(top_performers))

Extracted(underperformers, top_performers, total_extractable) ==
    IF Panics(total_extractable) THEN Err("panic: arithmetic overflow")
    ELSE IF ~BLt(Lit(<<1, 0, 0>>), total_extractable.v) THEN Err("InsufficientBalance")
    ELSE Planned(underperformers, top_performers, total_extractable.v,
                 calculate_optimal_allocation(total_extractable.v, top_performers,
                                              RiskLimitsDefault))

Selected(underperformers, top_performers) ==
    IF underperformers = <<>> THEN Err("InsufficientStrategies")
    ELSE IF top_performers = <<>> THEN Err("InsufficientStrategies")
    ELSE Extracted(underperformers, top_performers, TotalExtractable(underperformers))

\* PORTFOLIO REBALANCING WORKFLOW
execute_complete_rebalancing(account, strategies) ==
    Selected(Underperformers(account, strategies), TopFive(strategies))

-----------------------------------------------------------------------------
(* The planner's specification: one call of calculate_optimal_allocation   *)
(* on arguments drawn from the sets below.                                 *)

MaxCandidates == 4

\* the candidates a caller can hand in, by strategy id
Catalogue ==
    <<StrategyPerformanceData("S1", Zero,    Lit(<<5, 0, 0>>),  N(5000),  StableLending(5000),   80),
      StrategyPerformanceData("S2", N(2000), Lit(<<20, 0, 0>>), N(5000),  LiquidStaking(500, 2), 90),
      StrategyPerformanceData("S3", N(100),  Lit(<<20, 0, 0>>), Zero,     LiquidStaking(0, 0),   75),
      StrategyPerformanceData("S4", N(8000), Lit(<<5, 0, 0>>),  N(10000), StableLending(9000),   95),
      StrategyPerformanceData("S5", N(8000), Lit(<<5, 0, 0>>),  N(10000), StableLending(100),    99),
      StrategyPerformanceData("S6", N(8000), Lit(<<30, 0, 0>>), Zero,     YieldFarming(3, 30),   100)>>

RECURSIVE Picked(_, _)
\* the candidates whose catalogue index is in `chosen`, in catalogue order
Picked(chosen, i) ==
    IF i > Len(Catalogue) THEN <<>>
    ELSE (IF i \in chosen THEN <<Catalogue[i]>> ELSE <<>>) \o Picked(chosen, i + 1)

CandidateLists ==
    {Picked(chosen, 1) : chosen \in {c \in SUBSET (1..Len(Catalogue)) :
                                         Cardinality(c) <= MaxCandidates}}

Capitals ==
    {Zero, N(150), Lit(<<5, 0, 0>>), Lit(<<10, 0, 0>>), Lit(<<100, 0, 0>>),
     Lit(<<1000, 0, 0>>), Lit(<<2000, 0, 0, 0>>)}

RiskLimitsSet ==
    {RiskLimitsDefault,
     RiskLimits(N(4000), N(100), N(50), N(150), N(8000), "PlatformTreasury", "ManagerTreasury"),
     RiskLimits(N(4000), N(100), N(6000), N(5000), N(8000), "PlatformTreasury", "ManagerTreasury"),
     RiskLimits(N(9999), Zero, Zero, Zero, N(10000), "PlatformTreasury", "ManagerTreasury")}

AllocInit ==
    /\ overflow_checks \in BOOLEAN
    /\ now = Seconds(1000)
    /\ pc = "ready"
    /\ IdleScorer /\ IdleAccounts /\ IdlePortfolio
    /\ al_in \in {<<[available_capital |-> a, top_strategies |-> t, risk_limits |-> r]>> :
                     a \in Capitals, t \in CandidateLists, r \in RiskLimitsSet}
    /\ al_out = NoResult

\* a caller evaluates calculate_optimal_allocation(al_in)
AllocCall ==
    /\ pc = "ready" /\ al_in # <<>>
    /\ al_out' = calculate_optimal_allocation(al_in[1].available_capital,
                                               al_in[1].top_strategies,
                                               al_in[1].risk_limits)
    /\ pc' = "done"
    /\ UNCHANGED <<overflow_checks, portfolio, sc_in, sc_out, sc_prev, strategy, position, now,
                   ix_result, pre, al_in>>

AllocNext == AllocCall

AllocSpec == AllocInit /\ [][AllocNext]_vars

RECURSIVE SumAmounts(_)
SumAmounts(allocations) ==
    IF allocations = <<>> THEN Zero
    ELSE BAdd(Head(allocations).amount, SumAmounts(Tail(allocations)))

AllocDone == pc = "done" /\ al_in # <<>>
\* the call has returned a list of allocations
AllocReturned == AllocDone /\ al_out.ok
\* the call went through the main loop: it returned a list, or failed in the
\* dust top-up
LoopLeft == AllocDone /\ (al_out.ok \/ al_out.err = "BalanceOverflow")

\* what calculate_optimal_allocation holds when it leaves the main loop
AtLoopExit == MainLoop(al_in[1].available_capital, al_in[1].top_strategies,
                       al_in[1].risk_limits)

IsStrategyEntry(a) == a.allocation_type \in {"TopPerformer", "RiskDiversification"}

\* C1: when every bps field of the RiskLimits is at most 10000, the amounts of
\* the returned allocations (fee entries, strategy entries, dust top-up) sum to
\* at most available_capital.
C1_SumWithinCapital ==
    (AllocReturned
       /\ BLe(al_in[1].risk_limits.max_single_strategy_bps, N(10000))
       /\ BLe(al_in[1].risk_limits.min_single_strategy_bps, N(10000))
       /\ BLe(al_in[1].risk_limits.platform_fee_bps, N(10000))
       /\ BLe(al_in[1].risk_limits.manager_fee_bps, N(10000))
       /\ BLe(al_in[1].risk_limits.risk_tolerance_bps, N(10000)))
    => BLe(SumAmounts(al_out.value), al_in[1].available_capital)

\* C2: when the candidates' strategy ids are pairwise distinct, no two returned
\* allocations, fee entries included, have the same strategy_id.
C2_DistinctStrategyIds ==
    (AllocReturned
       /\ \A i, j \in 1..Len(al_in[1].top_strategies) :
             i # j => al_in[1].top_strategies[i].strategy_id
                        # al_in[1].top_strategies[j].strategy_id)
    => \A i, j \in 1..Len(al_out.value) :
          i # j => al_out.value[i].strategy_id # al_out.value[j].strategy_id

\* C3: every returned TopPerformer or RiskDiversification allocation is at
\* least the minimum ticket of the protocol of its strategy.
C3_MinimumTicket ==
    AllocReturned =>
        \A i \in 1..Len(al_out.value) :
            IsStrategyEntry(al_out.value[i]) =>
                \A j \in 1..Len(al_in[1].top_strategies) :
                    al_in[1].top_strategies[j].strategy_id = al_out.value[i].strategy_id
                    => BLe(ProtocolMinimum(al_in[1].top_strategies[j].protocol_type.kind),
                           al_out.value[i].amount)

\* C4: when more than 1,000,000 is left after the main loop and the list has
\* a TopPerformer entry, the call returns the list of the loop with the whole
\* leftover added to the first TopPerformer entry and nothing else changed,
\* and (fee bps totalling at most 10000) the amounts then sum to exactly
\* available_capital; when at most 1,000,000 is left, the call returns the
\* list of the loop unchanged.
C4_DustTopUp ==
    LoopLeft =>
        /\ (BLt(N(1000000), AtLoopExit.remaining_capital)
               /\ FirstTopPerformer(AtLoopExit.allocations) # 0)
             => /\ al_out.ok
                /\ al_out.value =
                     [AtLoopExit.allocations
                        EXCEPT ![FirstTopPerformer(AtLoopExit.allocations)].amount =
                                   BAdd(@, AtLoopExit.remaining_capital)]
                /\ BLe(BAdd(al_in[1].risk_limits.platform_fee_bps,
                            al_in[1].risk_limits.manager_fee_bps), N(10000))
                     => SumAmounts(al_out.value) = al_in[1].available_capital
        /\ BLe(AtLoopExit.remaining_capital, N(1000000))
             => (al_out.ok /\ al_out.value = AtLoopExit.allocations)

\* the leftover went to a TopPerformer entry that follows the two fee entries
C4_Witness ==
    /\ LoopLeft /\ al_out.ok
    /\ BLt(N(1000000), AtLoopExit.remaining_capital)
    /\ FirstTopPerformer(AtLoopExit.allocations) = 3
    /\ al_out.value[3].amount =
          BAdd(AtLoopExit.allocations[3].amount, AtLoopExit.remaining_capital)
    /\ SumAmounts(al_out.value) = al_in[1].available_capital

-----------------------------------------------------------------------------
(* CapitalExtractionEngine: instructions/extract_capital.rs                *)
(* An extraction works on `&mut Strategy` and `&mut CapitalPosition`: what *)
(* it has written when it returns Err stays written.  Each operator gives  *)
(* the value returned and the two records as the call leaves them.         *)

ExtractionResult(extracted_amount, extraction_type, fees_paid) ==
    [extracted_amount |-> extracted_amount, extraction_type |-> extraction_type,
     fees_paid |-> fees_paid]

Left(result, s, p) == [result |-> result, strategy |-> s, position |-> p]

UnwrapOr(option, default) == IF option = <<>> THEN default ELSE option[1]

\* mutant: the whole balance is withdrawn, nothing is kept for rent
LendingExtractionAmount_NoRentFloor(available_balance) == available_balance

\* CALCULATE WITHDRAWAL AMOUNT (Full extraction for rebalancing)
LendingExtractionAmount(available_balance) ==
    IF BLt(N(10000000), available_balance)
    THEN SaturatingSub(available_balance, N(10000000))
    ELSE Zero

\* from `strategy.total_withdrawals = ...` on; s already has its new balance
LendingWithdrawalsAndPosition(s, p, extraction_amount, new_total) ==
    IF new_total = <<>> THEN Left(Err("BalanceOverflow"), s, p)
    ELSE Left(Ok(ExtractionResult(extraction_amount, "LendingWithdrawal", Zero)),
              [s EXCEPT !.total_withdrawals = new_total[1]],
              [p EXCEPT !.token_a_amount =
                            UnwrapOr(CheckedSub(p.token_a_amount, extraction_amount), Zero),
                        !.last_rebalance = now])

\* from `strategy.current_balance = ...` on
LendingBalance(s, p, extraction_amount, new_balance) ==
    IF new_balance = <<>> THEN Left(Err("InsufficientBalance"), s, p)
    ELSE LendingWithdrawalsAndPosition(
             [s EXCEPT !.current_balance = new_balance[1]], p, extraction_amount,
             CheckedAdd(s.total_withdrawals, extraction_amount, U64Max))

LendingExtraction(s, p, extraction_amount) ==
    IF extraction_amount = Zero
    THEN Left(Ok(ExtractionResult(Zero, "NoExtraction", Zero)), s, p)
    ELSE LendingBalance(s, p, extraction_amount,
                        CheckedSub(s.current_balance, extraction_amount))

extract_from_lending(s, p) ==
    LendingExtraction(s, p, LendingExtractionAmount(s.current_balance))

\* a plain u128 `a * b` and a plain u64 `a + b`, as Mul64
Wrap128(product) ==
    [v |-> IF BLe(product, U128Max) THEN product ELSE BMod(product, BAdd(U128Max, N(1))),
     overflow |-> ~BLe(product, U128Max)]
Mul128(a, b) == Wrap128(BMul(a, b))

PanicOverflow(s, p) == Left(Err("panic: arithmetic overflow"), s, p)

\* |a - b|
AbsDiff(a, b) == IF BLe(b, a) THEN BSub(a, b) ELSE BSub(b, a)

\* a * 1_000_000 / b, or 1_000_000 when b is 0
RatioOr1(a, b) ==
    IF b = Zero THEN Lit(<<100, 0>>) ELSE BDiv(BMul(a, Lit(<<100, 0>>)), b)

\* CALCULATE IMPERMANENT LOSS, after every balance has been written
FarmingLoss(s, p, total_extracted, total_fees, current_ratio, entry_ratio) ==
    IF current_ratio # entry_ratio /\ entry_ratio = Zero
    THEN Left(Err("panic: division by zero"), s, p)
    ELSE Left(Ok(ExtractionResult(total_extracted, "LiquidityWithdrawal", total_fees)), s,
              [p EXCEPT !.impermanent_loss =
                   IF current_ratio = entry_ratio THEN I64(FALSE, Zero)
                   ELSE AsI64(BDiv(BMulS(AbsDiff(current_ratio, entry_ratio), 100),
                                   entry_ratio))])

\* mutant: the platform's LP tokens are burnt but still counted as controlled
FarmingPosition_KeepsControl(s, p, w, after, total_extracted, total_fees) ==
    IF ~BLe(w.a, p.token_a_amount) THEN Left(Err("InsufficientBalance"), s, p)
    ELSE IF ~BLe(w.b, p.token_b_amount)
    THEN Left(Err("InsufficientBalance"), s,
              [p EXCEPT !.token_a_amount = BSub(p.token_a_amount, w.a)])
    ELSE IF ~BLe(p.platform_controlled_lp, p.lp_tokens)
    THEN Left(Err("InsufficientBalance"), s,
              [p EXCEPT !.token_a_amount = BSub(p.token_a_amount, w.a),
                        !.token_b_amount = BSub(p.token_b_amount, w.b)])
    ELSE FarmingLoss(s, [p EXCEPT !.token_a_amount = BSub(p.token_a_amount, w.a),
                                  !.token_b_amount = BSub(p.token_b_amount, w.b),
                                  !.lp_tokens = BSub(p.lp_tokens, p.platform_controlled_lp),
                                  !.last_rebalance = now],
                     total_extracted, total_fees,
                     RatioOr1(after.a, after.b),
                     RatioOr1(p.entry_price_a, p.entry_price_b))

\* UPDATE POSITION STATE; s carries its new balance and withdrawals.
\* w = [a, b]: the two withdrawals, after = [a, b]: the same after slippage
FarmingPosition(s, p, w, after, total_extracted, total_fees) ==
    IF ~BLe(w.a, p.token_a_amount) THEN Left(Err("InsufficientBalance"), s, p)
    ELSE IF ~BLe(w.b, p.token_b_amount)
    THEN Left(Err("InsufficientBalance"), s,
              [p EXCEPT !.token_a_amount = BSub(p.token_a_amount, w.a)])
    ELSE IF ~BLe(p.platform_controlled_lp, p.lp_tokens)
    THEN Left(Err("InsufficientBalance"), s,
              [p EXCEPT !.token_a_amount = BSub(p.token_a_amount, w.a),
                        !.token_b_amount = BSub(p.token_b_amount, w.b)])
    ELSE FarmingLoss(s, [p EXCEPT !.token_a_amount = BSub(p.token_a_amount, w.a),
                                  !.token_b_amount = BSub(p.token_b_amount, w.b),
                                  !.lp_tokens = BSub(p.lp_tokens, p.platform_controlled_lp),
                                  !.platform_controlled_lp = Zero,
                                  !.last_rebalance = now],
                     total_extracted, total_fees,
                     RatioOr1(after.a, after.b),
                     RatioOr1(p.entry_price_a, p.entry_price_b))

\* UPDATE STRATEGY STATE
FarmingStrategy(s, p, w, after, total_extracted, total_fees) ==
    IF ~BLe(total_extracted, s.current_balance) THEN Left(Err("InsufficientBalance"), s, p)
    ELSE IF CheckedAdd(s.total_withdrawals, total_extracted, U64Max) = <<>>
    THEN Left(Err("BalanceOverflow"),
              [s EXCEPT !.current_balance = BSub(s.current_balance, total_extracted)], p)
    ELSE FarmingPosition(
             [s EXCEPT !.current_balance = BSub(s.current_balance, total_extracted),
                       !.total_withdrawals = BAdd(s.total_withdrawals, total_extracted)],
             p, w, after, total_extracted, total_fees)

\* CONVERT TO SOL EQUIVALENT
FarmingTotal(s, p, w, after, total_fees, total_extracted) ==
    IF total_extracted = <<>> THEN Left(Err("BalanceOverflow"), s, p)
    ELSE FarmingStrategy(s, p, w, after, total_extracted[1], total_fees)

AfterSlippage(withdrawal, slippage) ==
    SaturatingSub(withdrawal, BDiv(slippage.v, N(10000)))

FarmingFeeTotal(s, p, w, after, fee_product) ==
    IF Panics(fee_product) THEN PanicOverflow(s, p)
    ELSE FarmingTotal(s, p, w, after, BDiv(fee_product.v, N(10000)),
                      CheckedAdd(after.a, after.b, U64Max))

\* SLIPPAGE AND FEE CALCULATIONS: slippage_bps = 50, protocol_fee_bps = 30
FarmingSlippage(s, p, w, slippage_a, slippage_b, sum) ==
    IF Panics(slippage_a) \/ Panics(slippage_b) \/ Panics(sum) THEN PanicOverflow(s, p)
    ELSE FarmingFeeTotal(s, p, w,
                         [a |-> AfterSlippage(w.a, slippage_a),
                          b |-> AfterSlippage(w.b, slippage_b)],
                         Mul64(sum.v, N(30)))

FarmingWithdrawals(s, p, w) ==
    FarmingSlippage(s, p, w, Mul64(w.a, N(50)), Mul64(w.b, N(50)), Add64(w.a, w.b))

\* mutant: the share is taken of the LP tokens the platform does not control
WithdrawalPercentage_Others(total_lp_supply, platform_lp_tokens) ==
    BDiv(BMul(SaturatingSub(total_lp_supply, platform_lp_tokens), N(10000)), total_lp_supply)

\* withdrawal_percentage, for total_lp_supply > 0
WithdrawalPercentage(total_lp_supply, platform_lp_tokens) ==
    BDiv(BMul(platform_lp_tokens, N(10000)), total_lp_supply)

\* Apply withdrawal percentage to both token reserves
FarmingShares(s, p, product_a, product_b) ==
    IF Panics(product_a) \/ Panics(product_b) THEN PanicOverflow(s, p)
    ELSE FarmingWithdrawals(s, p, [a |-> AsU64(BDiv(product_a.v, N(10000))),
                                   b |-> AsU64(BDiv(product_b.v, N(10000)))])

FarmingPercentage(s, p, withdrawal_percentage) ==
    FarmingShares(s, p, Mul128(p.token_a_amount, withdrawal_percentage),
                  Mul128(p.token_b_amount, withdrawal_percentage))

extract_from_yield_farming(s, p) ==
    IF p.lp_tokens = Zero \/ p.platform_controlled_lp = Zero
    THEN Left(Err("InsufficientBalance"), s, p)
    ELSE FarmingPercentage(s, p,
                           WithdrawalPercentage(p.lp_tokens, p.platform_controlled_lp))

\* UPDATE STRATEGY STATE and UPDATE POSITION STATE of extract_from_staking
\* (penalty_amount + commission_fee cannot overflow: each is a u64 / 10000)
StakingWrites(s, p, penalty_amount, commission_fee, final_amount) ==
    IF CheckedAdd(s.total_withdrawals, final_amount, U64Max) = <<>>
    THEN Left(Err("BalanceOverflow"), [s EXCEPT !.current_balance = Zero], p)
    ELSE IF CheckedAdd(p.accrued_fees, commission_fee, U64Max) = <<>>
    THEN Left(Err("BalanceOverflow"),
              [s EXCEPT !.current_balance = Zero,
                        !.total_withdrawals = BAdd(s.total_withdrawals, final_amount)],
              [p EXCEPT !.token_a_amount = final_amount])
    ELSE Left(Ok(ExtractionResult(final_amount, "StakingUnstake",
                                  BAdd(penalty_amount, commission_fee))),
              [s EXCEPT !.current_balance = Zero,
                        !.total_withdrawals = BAdd(s.total_withdrawals, final_amount)],
              [p EXCEPT !.token_a_amount = final_amount,
                        !.accrued_fees = BAdd(p.accrued_fees, commission_fee),
                        !.last_rebalance = now])

StakingFinal(s, p, penalty_amount, commission_fee, final_amount) ==
    IF final_amount = <<>> THEN Left(Err("InsufficientBalance"), s, p)
    ELSE StakingWrites(s, p, penalty_amount, commission_fee, final_amount[1])

\* VALIDATOR COMMISSION CALCULATION
StakingCommission(s, p, penalty_amount, net_withdrawal, commission_product) ==
    IF Panics(commission_product) THEN PanicOverflow(s, p)
    ELSE StakingFinal(s, p, penalty_amount, BDiv(commission_product.v, N(10000)),
                      CheckedSub(net_withdrawal, BDiv(commission_product.v, N(10000))))

StakingNet(s, p, penalty_amount, net_withdrawal) ==
    IF net_withdrawal = <<>> THEN Left(Err("InsufficientBalance"), s, p)
    ELSE StakingCommission(s, p, penalty_amount, net_withdrawal[1],
                           Mul64(net_withdrawal[1], N(s.protocol_type.commission)))

\* IMMEDIATE WITHDRAWAL WITH PENALTY: immediate_withdrawal_penalty = 200
StakingPenalty(s, p, penalty_product) ==
    IF Panics(penalty_product) THEN PanicOverflow(s, p)
    ELSE StakingNet(s, p, BDiv(penalty_product.v, N(10000)),
                    CheckedSub(s.current_balance, BDiv(penalty_product.v, N(10000))))

\* (_unstake_epoch = current_epoch + unstake_delay is computed and dropped; the
\* cluster's epoch is far from u64::MAX)
extract_from_staking(s, p) ==
    IF s.protocol_type.kind # "LiquidStaking" THEN Left(Err("InvalidProtocolType"), s, p)
    ELSE StakingPenalty(s, p, Mul64(s.current_balance, N(200)))

\* mutant: the status of the strategy is not looked at
extract_from_protocol_AnyStatus(s, p) ==
    IF s.current_balance = Zero THEN Left(Err("InsufficientBalance"), s, p)
    ELSE IF s.protocol_type.kind = "StableLending" THEN extract_from_lending(s, p)
    ELSE IF s.protocol_type.kind = "YieldFarming" THEN extract_from_yield_farming(s, p)
    ELSE extract_from_staking(s, p)

\* MULTI-PROTOCOL EXTRACTION MECHANICS
extract_from_protocol(s, p) ==
    IF s.status # "Active" THEN Left(Err("StrategyNotFound"), s, p)
    ELSE IF s.current_balance = Zero THEN Left(Err("InsufficientBalance"), s, p)
    ELSE IF s.protocol_type.kind = "StableLending" THEN extract_from_lending(s, p)
    ELSE IF s.protocol_type.kind = "YieldFarming" THEN extract_from_yield_farming(s, p)
    ELSE extract_from_staking(s, p)

\* VERIFY: x*y=k invariant maintained (both products fit in u128)
LpInvariant(token_a_out, token_b_out, new_k, old_k) ==
    IF BLe(SaturatingSub(old_k, BDiv(old_k, N(10000))), new_k)
    THEN Ok([token_a_out |-> token_a_out, token_b_out |-> token_b_out])
    ELSE Err("InvariantViolation")

LpOut(current_reserve_a, current_reserve_b, token_a_out, token_b_out) ==
    LpInvariant(token_a_out, token_b_out,
                BMul(SaturatingSub(current_reserve_a, token_a_out),
                     SaturatingSub(current_reserve_b, token_b_out)),
                BMul(current_reserve_a, current_reserve_b))

\* CapitalPosition::calculate_lp_withdrawal_amounts(&self, ..)
calculate_lp_withdrawal_amounts(self, current_reserve_a, current_reserve_b, total_lp_supply, lp_tokens_to_burn) ==
    IF ~BLe(lp_tokens_to_burn, self.lp_tokens) THEN Err("InsufficientBalance")
    ELSE IF total_lp_supply = Zero THEN Err("InvalidPoolState")
    ELSE LpOut(current_reserve_a, current_reserve_b,
               AsU64(BDiv(BMul(lp_tokens_to_burn, current_reserve_a), total_lp_supply)),
               AsU64(BDiv(BMul(lp_tokens_to_burn, current_reserve_b), total_lp_supply)))

-----------------------------------------------------------------------------
(* The engine's specification: one extraction on a strategy and a position *)
(* drawn from the sets below.                                              *)

ExtractBalances ==
    {Zero, N(9999999), N(10000000), N(10000001), Lit(<<10, 0, 0>>), U64Max}
ExtractWithdrawals == {Zero, Lit(<<10, 0, 0>>), U64Max}
ExtractTokenA == {Zero, Lit(<<5, 0, 0>>), Lit(<<10, 0, 0>>)}
ExtractProtocols ==
    {StableLending(5000), YieldFarming(3, 30), LiquidStaking(500, 2), LiquidStaking(500, 50)}
ExtractStatuses == {"Active", "Paused", "Deprecated"}

\* a LiquidityPair position of strategy S1
LiquidityPair(token_a_amount, token_b_amount, lp_tokens, platform_controlled_lp, entry_price_a, entry_price_b) ==
    [NoPosition EXCEPT !.strategy_id = "S1", !.position_type = "LiquidityPair",
                       !.token_a_amount = token_a_amount,
                       !.token_b_amount = token_b_amount,
                       !.lp_tokens = lp_tokens,
                       !.platform_controlled_lp = platform_controlled_lp,
                       !.entry_price_a = entry_price_a, !.entry_price_b = entry_price_b]

\* single-asset positions, a staked position whose accrued_fees is at
\* u64::MAX, and liquidity pairs: a third / all / half of the LP supply under
\* platform control, more LP tokens under control than exist, none, reserves
\* at u64::MAX, an entry price of 0 for token A and a lopsided pool
ExtractPositions ==
    {[NoPosition EXCEPT !.strategy_id = "S1", !.token_a_amount = a] : a \in ExtractTokenA}
    \cup {[NoPosition EXCEPT !.strategy_id = "S1", !.position_type = "StakedPosition",
                             !.accrued_fees = fees] : fees \in {N(1000000), U64Max}}
    \cup {LiquidityPair(N(3000000), N(6000000), N(3), N(1), Lit(<<100, 0>>), Lit(<<100, 0>>)),
          LiquidityPair(Lit(<<5, 0, 0>>), Lit(<<5, 0, 0>>), N(1000), N(1000), Lit(<<100, 0>>), Lit(<<100, 0>>)),
          LiquidityPair(N(1000000), N(1000000), N(1000), N(500), Zero, N(1)),
          LiquidityPair(N(1000), N(1000), N(1), N(2), Lit(<<100, 0>>), Lit(<<100, 0>>)),
          LiquidityPair(N(1000000), N(1000000), Zero, Zero, Lit(<<100, 0>>), Lit(<<100, 0>>)),
          LiquidityPair(N(1000000), N(1000000), N(1000), Zero, Lit(<<100, 0>>), Lit(<<100, 0>>)),
          LiquidityPair(U64Max, U64Max, N(1), N(1), Lit(<<100, 0>>), Lit(<<100, 0>>)),
          LiquidityPair(Lit(<<1005, 0, 0>>), N(1), N(1), N(1), N(1), Lit(<<100, 0>>))}

\* arguments of calculate_lp_withdrawal_amounts: reserves, supply, tokens to burn
LpArguments ==
    {[current_reserve_a |-> a, current_reserve_b |-> a, total_lp_supply |-> q[1],
      lp_tokens_to_burn |-> q[2]] :
        a \in {N(1000000), Lit(<<1, 0, 0, 0>>)},
        q \in {<<Zero, Zero>>, <<N(1000), Zero>>, <<N(1000), N(1)>>, <<N(1000), N(1000)>>,
               <<Lit(<<10, 0, 0>>), N(1)>>}}

ExtractInit ==
    /\ overflow_checks \in BOOLEAN
    /\ now = Seconds(1000)
    /\ pc = "ready"
    /\ IdleScorer /\ IdlePlanner /\ IdlePortfolio
    /\ \E b \in ExtractBalances, w \in ExtractWithdrawals, k \in ExtractProtocols,
          st \in ExtractStatuses :
          strategy = [RegisteredStrategy("S1", k, Lit(<<10, 0, 0>>), 0) EXCEPT
                         !.current_balance = b, !.total_withdrawals = w, !.status = st]
    /\ position \in ExtractPositions
    /\ ix_result = NoResult /\ pre = <<>>

\* the effect of a call on the two accounts
Returns(op, left) ==
    /\ pre' = <<[op |-> op, strategy |-> strategy, position |-> position]>>
    /\ ix_result' = left.result
    /\ strategy' = left.strategy
    /\ position' = left.position
    /\ pc' = "done"
    /\ UNCHANGED <<overflow_checks, portfolio, sc_in, sc_out, sc_prev, now, al_in, al_out>>

\* a caller evaluates extract_from_lending(&mut strategy, &mut position)
ExtractFromLending ==
    /\ pc = "ready"
    /\ Returns("extract_from_lending", extract_from_lending(strategy, position))

\* a caller evaluates extract_from_yield_farming(&mut strategy, &mut position)
ExtractFromYieldFarming ==
    /\ pc = "ready"
    /\ Returns("extract_from_yield_farming", extract_from_yield_farming(strategy, position))

\* a caller evaluates extract_from_staking(&mut strategy, &mut position)
ExtractFromStaking ==
    /\ pc = "ready"
    /\ Returns("extract_from_staking", extract_from_staking(strategy, position))

\* a caller evaluates extract_from_protocol(&mut strategy, &mut position)
ExtractFromProtocol ==
    /\ pc = "ready"
    /\ Returns("extract_from_protocol", extract_from_protocol(strategy, position))

\* a caller evaluates position.calculate_lp_withdrawal_amounts(..), which
\* only reads the position
CalculateLpWithdrawal ==
    /\ pc = "ready"
    /\ \E g \in LpArguments :
          /\ pre' = <<[op |-> "calculate_lp_withdrawal_amounts", strategy |-> strategy,
                        position |-> position, args |-> g]>>
          /\ ix_result' = calculate_lp_withdrawal_amounts(
                               position, g.current_reserve_a, g.current_reserve_b,
                               g.total_lp_supply, g.lp_tokens_to_burn)
    /\ pc' = "done"
    /\ UNCHANGED <<overflow_checks, portfolio, sc_in, sc_out, sc_prev, strategy, position, now,
                   al_in, al_out>>

ExtractNext ==
    \/ ExtractFromLending
    \/ ExtractFromYieldFarming
    \/ ExtractFromStaking
    \/ ExtractFromProtocol
    \/ CalculateLpWithdrawal

ExtractSpec == ExtractInit /\ [][ExtractNext]_vars

LendingDone == pc = "done" /\ pre # <<>> /\ pre[1].op = "extract_from_lending"

\* current_balance - 10,000,000 of the strategy handed in
LendingExtractable == SaturatingSub(pre[1].strategy.current_balance, N(10000000))

\* the first half of the claim: at or below the rent floor nothing happens
LendingNoOp ==
    BLe(pre[1].strategy.current_balance, N(10000000))
    => /\ ix_result = Ok(ExtractionResult(Zero, "NoExtraction", Zero))
       /\ strategy = pre[1].strategy
       /\ position = pre[1].position

\* the outcome the claim gives above the rent floor
LendingWithdrawn ==
    /\ ix_result.ok
    /\ ix_result.value.extracted_amount = LendingExtractable
    /\ ix_result.value.extraction_type = "LendingWithdrawal"
    /\ strategy.current_balance = N(10000000)
    /\ BAdd(strategy.current_balance, ix_result.value.extracted_amount)
         = pre[1].strategy.current_balance
    /\ strategy.total_withdrawals
         = BAdd(pre[1].strategy.total_withdrawals, ix_result.value.extracted_amount)

\* C10 as stated: at or below 10,000,000 extract_from_lending returns amount 0
\* with NoExtraction and changes nothing; otherwise it extracts exactly
\* current_balance - 10,000,000, leaving 10,000,000, and total_withdrawals
\* grows by the same amount, with extraction_type LendingWithdrawal.
C10_LendingExtraction_AsStated ==
    LendingDone =>
        /\ LendingNoOp
        /\ BLt(N(10000000), pre[1].strategy.current_balance) => LendingWithdrawn

\* C10 as amended: the same, except that above the rent floor the call fails
\* with BalanceOverflow when total_withdrawals + (current_balance - 10,000,000)
\* exceeds u64::MAX.
C10_LendingExtraction ==
    LendingDone =>
        /\ LendingNoOp
        /\ (BLt(N(10000000), pre[1].strategy.current_balance)
               /\ BLe(BAdd(pre[1].strategy.total_withdrawals, LendingExtractable), U64Max))
             => LendingWithdrawn
        /\ (BLt(N(10000000), pre[1].strategy.current_balance)
               /\ ~BLe(BAdd(pre[1].strategy.total_withdrawals, LendingExtractable), U64Max))
             => (~ix_result.ok /\ ix_result.err = "BalanceOverflow")

\* a lending extraction of 990,000,000 out of 1,000,000,000 has succeeded
C10_Witness ==
    /\ LendingDone
    /\ pre[1].strategy.current_balance = Lit(<<10, 0, 0>>)
    /\ ix_result.ok
    /\ ix_result.value.extracted_amount = Lit(<<9, 9000, 0>>)
    /\ strategy.current_balance = N(10000000)

FarmingDone == pc = "done" /\ pre # <<>> /\ pre[1].op = "extract_from_yield_farming"

\* the position handed in has 0 < platform_controlled_lp <= lp_tokens
PlatformShareValid ==
    /\ pre[1].position.platform_controlled_lp # Zero
    /\ BLe(pre[1].position.platform_controlled_lp, pre[1].position.lp_tokens)

\* floor(platform_controlled_lp * reserve / lp_tokens) of the position handed in
ExactShare(reserve) ==
    BDiv(BMul(pre[1].position.platform_controlled_lp, reserve), pre[1].position.lp_tokens)

\* C11: in a successful extract_from_yield_farming on a position with
\* 0 < platform_controlled_lp <= lp_tokens, the amount taken out of each
\* reserve is floor(platform_controlled_lp * reserve / lp_tokens).
C11_ProportionalShare ==
    (FarmingDone /\ ix_result.ok /\ PlatformShareValid) =>
        /\ BAdd(position.token_a_amount, ExactShare(pre[1].position.token_a_amount))
             = pre[1].position.token_a_amount
        /\ BAdd(position.token_b_amount, ExactShare(pre[1].position.token_b_amount))
             = pre[1].position.token_b_amount

LpDone == pc = "done" /\ pre # <<>> /\ pre[1].op = "calculate_lp_withdrawal_amounts"

\* new_k >= old_k - old_k / 10000
WithinTolerance(old_k, new_k) == BLe(BSub(old_k, BDiv(old_k, N(10000))), new_k)

\* C12: an AMM extraction that succeeds leaves the product of the reserves at
\* or above the product before less 0.01% of it (a withdrawal that would take
\* it lower is refused), for extract_from_yield_farming and for
\* calculate_lp_withdrawal_amounts.
C12_InvariantOrFailure ==
    /\ (FarmingDone /\ ix_result.ok) =>
           WithinTolerance(BMul(pre[1].position.token_a_amount,
                                pre[1].position.token_b_amount),
                           BMul(position.token_a_amount, position.token_b_amount))
    /\ (LpDone /\ ix_result.ok) =>
           WithinTolerance(BMul(pre[1].args.current_reserve_a,
                                pre[1].args.current_reserve_b),
                           BMul(BSub(pre[1].args.current_reserve_a,
                                     ix_result.value.token_a_out),
                                BSub(pre[1].args.current_reserve_b,
                                     ix_result.value.token_b_out)))

ProtocolDone == pc = "done" /\ pre # <<>> /\ pre[1].op = "extract_from_protocol"

\* the extraction that belongs to the protocol_type of the strategy handed in
ExtractionOfKind ==
    IF pre[1].strategy.protocol_type.kind = "StableLending"
    THEN extract_from_lending(pre[1].strategy, pre[1].position)
    ELSE IF pre[1].strategy.protocol_type.kind = "YieldFarming"
    THEN extract_from_yield_farming(pre[1].strategy, pre[1].position)
    ELSE extract_from_staking(pre[1].strategy, pre[1].position)

ExtractionDone ==
    /\ pc = "done" /\ pre # <<>>
    /\ pre[1].op \in {"extract_from_lending", "extract_from_yield_farming",
                      "extract_from_staking"}

\* the call returned an Err value (it did not panic)
ReturnedError ==
    /\ ~ix_result.ok
    /\ ix_result.err \notin {"panic: arithmetic overflow", "panic: division by zero"}

\* C14: when extract_from_lending, extract_from_yield_farming or
\* extract_from_staking returns an error, every field of the strategy and of
\* the position has the value it had before the call.
C14_NoPartialMutation ==
    (ExtractionDone /\ ReturnedError) =>
        (strategy = pre[1].strategy /\ position = pre[1].position)

-----------------------------------------------------------------------------
(* The portfolio's specification: one call of validate_allocations,        *)
(* redistribute_capital, execute_complete_rebalancing or                   *)
(* calculate_risk_adjustment on a Portfolio account and arguments drawn    *)
(* from the sets below.                                                    *)

\* the Portfolio accounts: as initialize_portfolio leaves them, after
\* redistributions have moved capital, and with the emergency stop set
Portfolios ==
    {[InitializedPortfolio("Manager", threshold, Seconds(3600), Seconds(1000))
         EXCEPT !.emergency_pause = paused, !.total_capital_moved = moved] :
       threshold \in {1, 10, 50}, paused \in BOOLEAN,
       moved \in {Zero, Lit(<<10, 0, 0>>), BSub(U64Max, Lit(<<10, 0, 0>>))}}

Allocation(strategy_id, amount) == CapitalAllocation(strategy_id, amount, "TopPerformer")

\* n allocations of one amount to n different strategies
Uniform(n, amount) == [i \in 1..n |-> Allocation("K" \o ToString(i), amount)]

\* the batches a caller can hand in
Batches ==
    {<<>>,
     <<Allocation("S1", Lit(<<10, 0, 0>>))>>,
     <<Allocation("S1", Lit(<<10, 0, 0>>)), Allocation("S2", Lit(<<5, 0, 0>>))>>,
     <<Allocation("S1", Lit(<<10, 0, 0>>)), Allocation("S1", Lit(<<5, 0, 0>>))>>,
     <<Allocation("S1", Lit(<<10, 0, 0>>)), Allocation("S2", Zero)>>,
     <<Allocation("S1", Lit(<<10, 0, 0>>)), Allocation("S2", Zero),
       Allocation("S1", Lit(<<5, 0, 0>>))>>,
     <<Allocation("S1", Lit(<<10, 0, 0>>)), Allocation("S2", Lit(<<5, 0, 0>>)),
       Allocation("S1", Zero)>>,
     <<Allocation("S1", BDiv(U64Max, N(1000)))>>,
     <<Allocation("S1", BSub(BDiv(U64Max, N(1000)), N(1)))>>,
     <<Allocation("S1", Lit(<<10, 0, 0>>)), Allocation("S2", U64Max)>>,
     Uniform(20, Lit(<<1, 0, 0>>)),
     Uniform(21, Lit(<<1, 0, 0>>))}

\* the strategies of a ranking cycle, by strategy id
Ranked ==
    <<StrategyPerformanceData("U1", N(1000), Lit(<<1, 1000, 0>>), N(5000), StableLending(5000), 0),
      StrategyPerformanceData("U2", N(1500), Lit(<<5, 0, 0>>),    N(5000), YieldFarming(3, 30), 10),
      StrategyPerformanceData("U3", N(500),  Lit(<<500, 0>>),     N(9000), StableLending(100),  30),
      StrategyPerformanceData("U4", N(2000), U64Max,              N(2000), LiquidStaking(500, 2), 49),
      StrategyPerformanceData("M1", N(5000), Lit(<<10, 0, 0>>),   N(5000), StableLending(5000), 74),
      Catalogue[1], Catalogue[2], Catalogue[3], Catalogue[6]>>

RECURSIVE PickedFrom(_, _, _)
\* the entries of `list` whose index is in `chosen`, in the order of the list
PickedFrom(list, chosen, i) ==
    IF i > Len(list) THEN <<>>
    ELSE (IF i \in chosen THEN <<list[i]>> ELSE <<>>) \o PickedFrom(list, chosen, i + 1)

\* one underperformer holding 10,010,000,000 and six strategies of the top
\* quartile
WideCycle ==
    <<StrategyPerformanceData("U5", N(500), Lit(<<100, 1000, 0>>), N(5000), StableLending(5000), 5)>>
        \o Catalogue

RankedLists ==
    {PickedFrom(Ranked, chosen, 1) : chosen \in {c \in SUBSET (1..Len(Ranked)) :
                                                    Cardinality(c) <= MaxCandidates}}
        \cup {WideCycle}

VolatilityScores == {Zero, N(1), N(2500), N(5000), N(7500), N(9999), N(10000), N(10001), U32Max}

Tolerances == {Zero, N(1), N(3333), N(5000), N(8000), N(10000)}

RebalanceInit ==
    /\ overflow_checks \in BOOLEAN
    /\ now = Seconds(1000)
    /\ pc = "ready"
    /\ IdleScorer /\ IdleAccounts /\ IdlePlanner
    /\ portfolio \in Portfolios

\* what a call on the Portfolio account leaves behind
Leaves(op, args, outcome) ==
    /\ pre' = <<[op |-> op, portfolio |-> portfolio, args |-> args]>>
    /\ ix_result' = outcome.result
    /\ portfolio' = outcome.portfolio
    /\ pc' = "done"
    /\ UNCHANGED <<overflow_checks, sc_in, sc_out, sc_prev, strategy, position, now,
                   al_in, al_out>>

\* a caller evaluates validate_allocations(&allocations)
ValidateAllocations ==
    /\ pc = "ready"
    /\ \E allocations \in Batches :
          Leaves("validate_allocations", allocations,
                 Outcome(validate_allocations(allocations), portfolio))

\* the manager sends the instruction redistribute_capital(allocations)
RedistributeCapital ==
    /\ pc = "ready"
    /\ \E allocations \in Batches :
          Leaves("redistribute_capital", allocations,
                 redistribute_capital(portfolio, allocations))

\* a caller evaluates execute_complete_rebalancing(&portfolio, &strategies)
ExecuteCompleteRebalancing ==
    /\ pc = "ready"
    /\ \E strategies \in RankedLists :
          Leaves("execute_complete_rebalancing", strategies,
                 Outcome(execute_complete_rebalancing(portfolio, strategies), portfolio))

\* a caller evaluates calculate_risk_adjustment(volatility_score, &risk_limits)
CalculateRiskAdjustment ==
    /\ pc = "ready"
    /\ \E volatility_score \in VolatilityScores, risk_tolerance_bps \in Tolerances :
          Leaves("calculate_risk_adjustment",
                 [volatility_score |-> volatility_score,
                  risk_limits |-> [RiskLimitsDefault EXCEPT
                                     !.risk_tolerance_bps = risk_tolerance_bps]],
                 Outcome(Ok(calculate_risk_adjustment(
                               volatility_score,
                               [RiskLimitsDefault EXCEPT
                                  !.risk_tolerance_bps = risk_tolerance_bps])),
                         portfolio))

RebalanceNext ==
    \/ ValidateAllocations
    \/ RedistributeCapital
    \/ ExecuteCompleteRebalancing
    \/ CalculateRiskAdjustment

RebalanceSpec == RebalanceInit /\ [][RebalanceNext]_vars

ValidateDone == pc = "done" /\ pre # <<>> /\ pre[1].op = "validate_allocations"
RedistributeDone == pc = "done" /\ pre # <<>> /\ pre[1].op = "redistribute_capital"

HasRepeatedId(allocations) ==
    \E i, j \in 1..Len(allocations) :
        i # j /\ allocations[i].strategy_id = allocations[j].strategy_id

HasBadAmount(allocations) ==
    \E i \in 1..Len(allocations) :
        \/ allocations[i].amount = Zero
        \/ BLe(BDiv(U64Max, N(1000)), allocations[i].amount)

PlanDone == pc = "done" /\ pre # <<>> /\ pre[1].op = "execute_complete_rebalancing"

BelowThreshold(s) == s.percentile_rank < pre[1].portfolio.rebalance_threshold

NoneBelowThreshold == \A i \in 1..Len(pre[1].args) : ~BelowThreshold(pre[1].args[i])
NoneInTopQuartile == \A i \in 1..Len(pre[1].args) : pre[1].args[i].percentile_rank < 75

\* C16: execute_complete_rebalancing fails with InsufficientStrategies, and
\* returns no plan, when no strategy handed in has percentile_rank below the
\* portfolio's rebalance_threshold, and when none has percentile_rank >= 75.
C16_NothingToRebalance ==
    (PlanDone /\ (NoneBelowThreshold \/ NoneInTopQuartile))
        => ix_result = Err("InsufficientStrategies")

\* a strategy of rank 10 under a threshold of 10 is no underperformer: the
\* cycle with it and one top performer was refused
C16_Witness ==
    /\ PlanDone
    /\ pre[1].portfolio.rebalance_threshold = 10
    /\ Len(pre[1].args) = 2
    /\ pre[1].args[1].percentile_rank = 10
    /\ pre[1].args[2].percentile_rank = 90
    /\ ix_result = Err("InsufficientStrategies")

RECURSIVE ExtractableTotal(_)
\* the sum, over the strategies below the threshold, of
\* max(current_balance - 10,000,000, 0)
ExtractableTotal(strategies) ==
    IF strategies = <<>> THEN Zero
    ELSE BAdd(IF BelowThreshold(Head(strategies))
              THEN SaturatingSub(Head(strategies).current_balance, Lit(<<1000, 0>>))
              ELSE Zero,
              ExtractableTotal(Tail(strategies)))

\* C17: when there are underperformers and top performers, the cycle is
\* rejected with InsufficientBalance if and only if the extractable total is
\* below 100,000,000; a total of exactly 100,000,000 is not rejected.
C17_MinimumExtractable ==
    (PlanDone /\ ~NoneBelowThreshold /\ ~NoneInTopQuartile
       /\ BLe(ExtractableTotal(pre[1].args), U64Max))
        => (ix_result.err = "InsufficientBalance"
              <=> BLt(ExtractableTotal(pre[1].args), Lit(<<1, 0, 0>>)))

\* C18: for a portfolio with emergency_pause = true,
\* execute_complete_rebalancing returns an error and no RebalancingPlan.
C18_PausedPortfolioRefused ==
    (PlanDone /\ pre[1].portfolio.emergency_pause) => ~ix_result.ok

\* C19: calculate_optimal_allocation returns an error and no list of
\* allocations, fee entries included, when available_capital is 0, when the
\* list of candidates is empty, and when the candidates' performance scores
\* sum to 0.
C19_NothingToAllocate ==
    (AllocDone /\ (\/ al_in[1].available_capital = Zero
                   \/ al_in[1].top_strategies = <<>>
                   \/ \A i \in 1..Len(al_in[1].top_strategies) :
                         al_in[1].top_strategies[i].performance_score = Zero))
        => (~al_out.ok /\ al_out.value = <<>>
              /\ al_out.err \in {"InsufficientBalance", "InsufficientStrategies",
                                 "InvalidPerformanceScore"})

\* 1,000,000,000 for a single candidate of score 0 was refused, although the
\* limits carry fees
C19_Witness ==
    /\ AllocDone
    /\ al_in[1].available_capital = Lit(<<10, 0, 0>>)
    /\ Len(al_in[1].top_strategies) = 1
    /\ al_in[1].top_strategies[1].performance_score = Zero
    /\ al_in[1].risk_limits.platform_fee_bps # Zero
    /\ al_out = Err("InvalidPerformanceScore")

RiskDone == pc = "done" /\ pre # <<>> /\ pre[1].op = "calculate_risk_adjustment"

\* C20: for every volatility_score and every risk_tolerance_bps in
\* [0, 10000], calculate_risk_adjustment returns a value in [5000, 15000],
\* and a higher volatility_score never gives a higher value.
C20_MultiplierRange ==
    (RiskDone /\ BLe(pre[1].args.risk_limits.risk_tolerance_bps, N(10000)))
        => /\ BLe(N(5000), ix_result.value)
           /\ BLe(ix_result.value, N(15000))
           /\ \A v \in VolatilityScores :
                 BLe(pre[1].args.volatility_score, v)
                    => BLe(calculate_risk_adjustment(v, pre[1].args.risk_limits),
                           ix_result.value)

StakingDone == pc = "done" /\ pre # <<>> /\ pre[1].op = "extract_from_staking"

\* floor(b * 200 / 10000) and floor((b - penalty) * c / 10000)
PenaltyOf(b) == BDiv(BMul(b, N(200)), N(10000))
CommissionOf(b, c) == BDiv(BMul(BSub(b, PenaltyOf(b)), N(c)), N(10000))

\* the accounts and the result of a successful unstaking of b at commission c
StakingAsClaimed ==
    /\ ix_result.value.extracted_amount =
          BSub(BSub(pre[1].strategy.current_balance,
                    PenaltyOf(pre[1].strategy.current_balance)),
               CommissionOf(pre[1].strategy.current_balance,
                            pre[1].strategy.protocol_type.commission))
    /\ ix_result.value.fees_paid =
          BAdd(PenaltyOf(pre[1].strategy.current_balance),
               CommissionOf(pre[1].strategy.current_balance,
                            pre[1].strategy.protocol_type.commission))
    /\ BAdd(ix_result.value.extracted_amount, ix_result.value.fees_paid)
          = pre[1].strategy.current_balance
    /\ strategy.current_balance = Zero
    /\ strategy.total_withdrawals =
          BAdd(pre[1].strategy.total_withdrawals, ix_result.value.extracted_amount)
    /\ position.accrued_fees =
          BAdd(pre[1].position.accrued_fees,
               CommissionOf(pre[1].strategy.current_balance,
                            pre[1].strategy.protocol_type.commission))
    /\ \A delay \in {0, 2, 50} :
          extract_from_staking(
              [pre[1].strategy EXCEPT !.protocol_type.unstake_delay = delay],
              pre[1].position).result = ix_result
          /\ extract_from_staking(
                 [pre[1].strategy EXCEPT !.protocol_type.unstake_delay = delay],
                 pre[1].position).position = position

C22_PlatformShareZeroed ==
    FarmingDone =>
        /\ (pre[1].position.lp_tokens = Zero
              \/ pre[1].position.platform_controlled_lp = Zero)
             => (ix_result = Err("InsufficientBalance")
                   /\ strategy = pre[1].strategy /\ position = pre[1].position)
        /\ ix_result.ok =>
             /\ position.platform_controlled_lp = Zero
             /\ BLe(pre[1].position.platform_controlled_lp, pre[1].position.lp_tokens)
             /\ position.lp_tokens = BSub(pre[1].position.lp_tokens,
                                          pre[1].position.platform_controlled_lp)
             /\ BLe(position.platform_controlled_lp, position.lp_tokens)
             /\ extract_from_yield_farming(strategy, position)
                   = Left(Err("InsufficientBalance"), strategy, position)

\* the platform's one LP token out of three was withdrawn: two are left, none
\* under platform control
C22_Witness ==
    /\ FarmingDone /\ ix_result.ok
    /\ pre[1].position.lp_tokens = N(3)
    /\ pre[1].position.platform_controlled_lp = N(1)
    /\ position.lp_tokens = N(2)
    /\ position.platform_controlled_lp = Zero

\* C23: an extraction that would subtract more than a recorded balance holds
\* reports an insufficient-balance error instead of clamping the field to 0:
\* a lending extraction larger than position.token_a_amount returns
\* InsufficientBalance.
C23_CheckedSubtractions ==
    (LendingDone /\ BLt(pre[1].position.token_a_amount, LendingExtractable))
        => ix_result = Err("InsufficientBalance")

\* C24: every TopPerformer or RiskDiversification allocation returned by
\* calculate_optimal_allocation is at most
\* available_capital * max_single_strategy_bps / 10000.
C24_DiversificationCap ==
    AllocReturned =>
        \A i \in 1..Len(al_out.value) :
            IsStrategyEntry(al_out.value[i]) =>
                BLe(al_out.value[i].amount,
                    BDiv(BMul(al_in[1].available_capital,
                              al_in[1].risk_limits.max_single_strategy_bps),
                         N(10000)))

PlanReturned == PlanDone /\ ix_result.ok

\* C25: the redistribution_plan of every RebalancingPlan returned by
\* execute_complete_rebalancing (the strategies handed in have pairwise
\* distinct ids) is accepted by validate_allocations.
C25_PlanIsSubmittable ==
    PlanReturned => validate_allocations(ix_result.value.redistribution_plan).ok

\* the indices of the strategies handed in with percentile_rank >= 75
TopQuartileIndices == {i \in 1..Len(pre[1].args) : pre[1].args[i].percentile_rank >= 75}

\* the ids of the first five of them
FirstFiveTopIds ==
    {pre[1].args[i].strategy_id : i \in {j \in TopQuartileIndices :
        Cardinality({k \in TopQuartileIndices : k < j}) < 5}}

\* the strategy entries of the returned plan
PlanStrategyEntries ==
    {i \in 1..Len(ix_result.value.redistribution_plan) :
        IsStrategyEntry(ix_result.value.redistribution_plan[i])}

\* C26: in every returned plan extraction_targets lists, in input order, the
\* ids of the strategies with percentile_rank < rebalance_threshold; every
\* TopPerformer or RiskDiversification allocation goes to one of the first
\* five strategies with percentile_rank >= 75; no strategy is both an
\* extraction target and the target of such an allocation.
C26_PlanTargets ==
    PlanReturned =>
        /\ ix_result.value.extraction_targets =
              StrategyIds(SelectSeq(pre[1].args, BelowThreshold))
        /\ \A i \in PlanStrategyEntries :
              /\ ix_result.value.redistribution_plan[i].strategy_id \in FirstFiveTopIds
              /\ \A j \in 1..Len(ix_result.value.extraction_targets) :
                    ix_result.value.extraction_targets[j]
                       # ix_result.value.redistribution_plan[i].strategy_id

\* of six top-quartile strategies the second, fourth and fifth got an
\* allocation and the sixth, although it ranks highest, none; U5 is the
\* extraction target
C26_Witness ==
    /\ PlanReturned
    /\ Len(pre[1].args) = 7
    /\ ix_result.value.extraction_targets = <<"U5">>
    /\ {ix_result.value.redistribution_plan[i].strategy_id : i \in PlanStrategyEntries}
          = {"S2", "S4", "S5"}

\* C27: extract_from_yield_farming never hits an arithmetic fault: for every
\* strategy and position with 0 < platform_controlled_lp <= lp_tokens the
\* call neither overflows a product nor divides by zero, so it returns Ok or
\* an error value, and the impermanent_loss recorded on the position is
\* never negative.
C27_NoArithmeticFault ==
    (FarmingDone /\ PlatformShareValid) =>
        /\ (ix_result.ok \/ ReturnedError)
        /\ ~position.impermanent_loss.neg

-----------------------------------------------------------------------------
(* The instructions on the Portfolio account: initialize.rs,               *)
(* register_strategy.rs, extract_capital.rs, execute_ranking.rs            *)

validate_rebalance_threshold(threshold) == threshold >= 1 /\ threshold <= 50

validate_min_interval(interval) ==
    I64Ge(interval, Seconds(3600)) /\ I64Ge(Seconds(86400), interval)

can_rebalance(self, current_time) ==
    /\ ~self.emergency_pause
    /\ I64Ge(current_time,
             SaturatingAddI64(self.last_rebalance, self.min_rebalance_interval))

\* the instruction initialize_portfolio on the account it creates
initialize_portfolio(account, manager, rebalance_threshold, min_rebalance_interval, current_time) ==
    IF manager = DefaultPubkey THEN Outcome(Err("InvalidManager"), account)
    ELSE IF ~validate_rebalance_threshold(rebalance_threshold)
    THEN Outcome(Err("InvalidRebalanceThreshold"), account)
    ELSE IF ~validate_min_interval(min_rebalance_interval)
    THEN Outcome(Err("InvalidRebalanceInterval"), account)
    ELSE Outcome(Ok(Zero),
                 InitializedPortfolio(manager, rebalance_threshold,
                                      min_rebalance_interval, current_time))

\* the instruction execute_ranking_cycle at the clock's current_timestamp
execute_ranking_cycle(account, current_timestamp) ==
    IF account.emergency_pause THEN Outcome(Err("EmergencyPaused"), account)
    ELSE IF ~I64Ge(SaturatingSubI64(current_timestamp, account.last_rebalance),
                   account.min_rebalance_interval)
    THEN Outcome(Err("InvalidRebalanceInterval"), account)
    ELSE Outcome(Ok(Zero), [account EXCEPT !.last_rebalance = current_timestamp])

\* mutant: the batch limits are tested before the emergency stop
extract_capital_LimitsFirst(account, strategy_ids) ==
    IF strategy_ids = <<>> THEN Outcome(Err("InsufficientStrategies"), account)
    ELSE IF Len(strategy_ids) > 10 THEN Outcome(Err("TooManyStrategies"), account)
    ELSE IF account.emergency_pause THEN Outcome(Err("EmergencyPaused"), account)
    ELSE CapitalMoved(account, CheckedAdd(account.total_capital_moved, Zero, U64Max))

\* the instruction extract_capital; total_extracted is the constant 0
extract_capital(account, strategy_ids) ==
    IF account.emergency_pause THEN Outcome(Err("EmergencyPaused"), account)
    ELSE IF strategy_ids = <<>> THEN Outcome(Err("InsufficientStrategies"), account)
    ELSE IF Len(strategy_ids) > 10 THEN Outcome(Err("TooManyStrategies"), account)
    ELSE CapitalMoved(account, CheckedAdd(account.total_capital_moved, Zero, U64Max))

\* ProtocolType::validate; keys are the Pubkey fields of the variant in the
\* order of their declaration
ValidateLending(protocol_type, keys) ==
    IF keys[1] = DefaultPubkey THEN Err("InvalidPoolId")
    ELSE IF keys[2] = DefaultPubkey THEN Err("InvalidReserveAddress")
    ELSE IF protocol_type.utilization > 10000 THEN Err("InvalidUtilization")
    ELSE Ok(Zero)

ValidateFarming(protocol_type, keys) ==
    IF keys[1] = DefaultPubkey THEN Err("InvalidPairId")
    ELSE IF keys[2] = DefaultPubkey \/ keys[3] = DefaultPubkey THEN Err("InvalidTokenMint")
    ELSE IF keys[2] = keys[3] THEN Err("DuplicateTokenMints")
    ELSE IF protocol_type.reward_multiplier < 1 \/ protocol_type.reward_multiplier > 10
    THEN Err("InvalidRewardMultiplier")
    ELSE IF protocol_type.fee_tier > 1000 THEN Err("InvalidFeeTier")
    ELSE Ok(Zero)

ValidateStaking(protocol_type, keys) ==
    IF keys[1] = DefaultPubkey THEN Err("InvalidValidatorId")
    ELSE IF keys[2] = DefaultPubkey THEN Err("InvalidStakePool")
    ELSE IF protocol_type.commission > 1000 THEN Err("InvalidCommission")
    ELSE IF protocol_type.unstake_delay > 50 THEN Err("InvalidUnstakeDelay")
    ELSE Ok(Zero)

ProtocolValidate(protocol_type, keys) ==
    IF protocol_type.kind = "StableLending" THEN ValidateLending(protocol_type, keys)
    ELSE IF protocol_type.kind = "YieldFarming" THEN ValidateFarming(protocol_type, keys)
    ELSE ValidateStaking(protocol_type, keys)

validate_balance_constraints(protocol_type, balance) ==
    IF protocol_type.kind = "StableLending" THEN BLe(Lit(<<1, 0, 0>>), balance)
    ELSE IF protocol_type.kind = "YieldFarming" THEN BLe(Lit(<<5, 0, 0>>), balance)
    ELSE BLe(Lit(<<10, 0, 0>>), balance)

\* what register_strategy leaves: the value returned, the Portfolio account
\* and the Strategy account
Registration(result, account, s) == [result |-> result, portfolio |-> account, strategy |-> s]

\* UPDATE PORTFOLIO COUNTERS WITH OVERFLOW PROTECTION
StrategyCounted(account, s, registered, total_strategies) ==
    IF total_strategies = <<>> THEN Registration(Err("BalanceOverflow"), account, s)
    ELSE Registration(Ok(Zero),
                      [account EXCEPT !.total_strategies = total_strategies[1]],
                      registered)

\* the instruction register_strategy; s is the Strategy account it creates,
\* which the runtime leaves as it was when the instruction fails
register_strategy(account, s, strategy_id, protocol_type, keys, initial_balance, current_time) ==
    IF account.emergency_pause THEN Registration(Err("EmergencyPaused"), account, s)
    ELSE IF strategy_id = DefaultPubkey
    THEN Registration(Err("InvalidStrategyId"), account, s)
    ELSE IF initial_balance = Zero
    THEN Registration(Err("InsufficientBalance"), account, s)
    ELSE IF ~validate_balance_update(initial_balance)
    THEN Registration(Err("BalanceOverflow"), account, s)
    ELSE IF ~ProtocolValidate(protocol_type, keys).ok
    THEN Registration(ProtocolValidate(protocol_type, keys), account, s)
    ELSE IF ~validate_balance_constraints(protocol_type, initial_balance)
    THEN Registration(Err("InsufficientBalance"), account, s)
    ELSE StrategyCounted(account, s,
                         RegisteredStrategy(strategy_id, protocol_type, initial_balance,
                                            current_time),
                         CheckedAdd(account.total_strategies, N(1), U32Max))

-----------------------------------------------------------------------------
(* The portfolio's life: initialize_portfolio creates the account, the     *)
(* manager sends register_strategy, extract_capital,                       *)
(* execute_ranking_cycle and redistribute_capital in any order, and the    *)
(* cluster's clock moves forward in between.                               *)

\* strategies registered per portfolio and redistributions of capital
MaxStrategies == 1
MaxRedistributions == 1

\* 1,700,000,000: a clock of the present
Epoch == I64(FALSE, Lit(<<17, 0, 0>>))

\* the values Clock::get()?.unix_timestamp takes
ClockTimes ==
    {I64Sum(Epoch, Seconds(k)) : k \in {0, 3599, 3600, 86400}}
       \cup {I64Difference(I64Max, Seconds(100)), I64Max}

\* arguments of initialize_portfolio
Initializing(manager, rebalance_threshold, min_rebalance_interval) ==
    [manager |-> manager, rebalance_threshold |-> rebalance_threshold,
     min_rebalance_interval |-> min_rebalance_interval]

Initializations ==
    {Initializing("Manager", 10, Seconds(3600)),
     Initializing("Manager", 50, Seconds(86400)),
     Initializing(DefaultPubkey, 10, Seconds(3600)),
     Initializing("Manager", 0, Seconds(3600)),
     Initializing("Manager", 51, Seconds(3600)),
     Initializing("Manager", 10, Seconds(3599)),
     Initializing("Manager", 10, Seconds(86401)),
     Initializing("Manager", 10, I64(TRUE, N(3600)))}

\* a Portfolio account with the emergency stop set
PausedPortfolio(current_time) ==
    [InitializedPortfolio("Manager", 10, Seconds(3600), current_time)
        EXCEPT !.emergency_pause = TRUE]

\* arguments of register_strategy
Registering(strategy_id, protocol_type, keys, initial_balance) ==
    [strategy_id |-> strategy_id, protocol_type |-> protocol_type, keys |-> keys,
     initial_balance |-> initial_balance]

Registrations ==
    {Registering("S1", StableLending(5000), <<"Pool", "Reserve">>, Lit(<<1, 0, 0>>)),
     Registering("S1", StableLending(5000), <<"Pool", "Reserve">>, N(99999999)),
     Registering("S1", StableLending(10001), <<"Pool", "Reserve">>, Lit(<<1, 0, 0>>)),
     Registering(DefaultPubkey, StableLending(5000), <<"Pool", "Reserve">>, Lit(<<1, 0, 0>>)),
     Registering("S1", StableLending(5000), <<"Pool", "Reserve">>, Zero),
     Registering("S2", YieldFarming(3, 30), <<"Pair", "MintA", "MintA">>, Lit(<<5, 0, 0>>)),
     Registering("S3", LiquidStaking(500, 2), <<"Validator", "StakePool">>, N(999999999))}

\* batches of extract_capital and of redistribute_capital
IdBatches == {StrategyIds(Uniform(n, N(1))) : n \in {0, 10, 11}}

LifeBatches ==
    {<<>>,
     <<Allocation("S1", Lit(<<10, 0, 0>>)), Allocation("S1", Lit(<<5, 0, 0>>))>>,
     Uniform(20, N(50000000)),
     Uniform(21, N(50000000))}

LifeInit ==
    /\ overflow_checks = TRUE
    /\ now = Epoch
    /\ pc = "ready"
    /\ IdleScorer /\ IdleAccounts /\ IdlePlanner
    /\ portfolio \in {NoPortfolio, PausedPortfolio(now)}

\* the portfolio account exists
Initialized == portfolio.manager # DefaultPubkey

\* the clock values at which last_rebalance has been set so far
Cycles == IF pre = <<>> THEN <<>> ELSE pre[1].cycles

\* what an instruction sent at the clock's current time leaves behind
Sent(op, args, result, account, s) ==
    /\ pre' = <<[op |-> op, portfolio |-> portfolio, args |-> args, at |-> now,
                 cycles |-> IF result.ok /\ op \in {"initialize_portfolio",
                                                    "execute_ranking_cycle"}
                            THEN Append(Cycles, now) ELSE Cycles]>>
    /\ ix_result' = result
    /\ portfolio' = account
    /\ strategy' = s
    /\ pc' = "done"
    /\ UNCHANGED <<overflow_checks, sc_in, sc_out, sc_prev, position, now, al_in, al_out>>

InitializePortfolio ==
    /\ ~Initialized
    /\ \E i \in Initializations :
          Sent("initialize_portfolio", i,
               initialize_portfolio(portfolio, i.manager, i.rebalance_threshold,
                                    i.min_rebalance_interval, now).result,
               initialize_portfolio(portfolio, i.manager, i.rebalance_threshold,
                                    i.min_rebalance_interval, now).portfolio,
               strategy)

RegisterStrategy ==
    /\ Initialized
    /\ BLt(portfolio.total_strategies, N(MaxStrategies))
    /\ \E r \in Registrations :
          Sent("register_strategy", r,
               register_strategy(portfolio, NoStrategy, r.strategy_id, r.protocol_type,
                                 r.keys, r.initial_balance, now).result,
               register_strategy(portfolio, NoStrategy, r.strategy_id, r.protocol_type,
                                 r.keys, r.initial_balance, now).portfolio,
               register_strategy(portfolio, NoStrategy, r.strategy_id, r.protocol_type,
                                 r.keys, r.initial_balance, now).strategy)

ExtractCapital ==
    /\ Initialized
    /\ \E strategy_ids \in IdBatches :
          Sent("extract_capital", strategy_ids,
               extract_capital(portfolio, strategy_ids).result,
               extract_capital(portfolio, strategy_ids).portfolio, strategy)

ExecuteRankingCycle ==
    /\ Initialized
    /\ Sent("execute_ranking_cycle", <<>>,
            execute_ranking_cycle(portfolio, now).result,
            execute_ranking_cycle(portfolio, now).portfolio, strategy)

RedistributeBatch ==
    /\ Initialized
    /\ BLt(portfolio.total_capital_moved, BMulS(Lit(<<10, 0, 0>>), MaxRedistributions))
    /\ \E allocations \in LifeBatches :
          Sent("redistribute_capital", allocations,
               redistribute_capital(portfolio, allocations).result,
               redistribute_capital(portfolio, allocations).portfolio, strategy)

\* the clock moves forward
Tick ==
    /\ \E t \in ClockTimes : t # now /\ I64Ge(t, now) /\ now' = t
    /\ UNCHANGED <<overflow_checks, sc_in, sc_out, sc_prev, strategy, position,
                   ix_result, pre, al_in, al_out, portfolio, pc>>

LifeNext ==
    \/ InitializePortfolio
    \/ RegisterStrategy
    \/ ExtractCapital
    \/ ExecuteRankingCycle
    \/ RedistributeBatch
    \/ Tick

LifeSpec == LifeInit /\ [][LifeNext]_vars

\* the last instruction sent was op
LastSent(op) == pre # <<>> /\ pre[1].op = op

PausableInstructions ==
    {"register_strategy", "extract_capital", "execute_ranking_cycle", "redistribute_capital"}

\* the last instruction was refused and the Portfolio account is as it was
Refused == ~ix_result.ok /\ portfolio = pre[1].portfolio

\* C28: while portfolio.emergency_pause is true, register_strategy,
\* extract_capital, execute_ranking_cycle and redistribute_capital fail with
\* EmergencyPaused and leave the Portfolio account unchanged; extract_capital
\* refuses an empty batch and one of more than 10 entries, and
\* redistribute_capital an empty batch and one of more than 20 entries,
\* without changing the account.
C28_EmergencyStop ==
    /\ (pre # <<>> /\ pre[1].op \in PausableInstructions
          /\ pre[1].portfolio.emergency_pause)
          => (ix_result = Err("EmergencyPaused") /\ portfolio = pre[1].portfolio)
    /\ (LastSent("extract_capital") /\ (pre[1].args = <<>> \/ Len(pre[1].args) > 10))
          => Refused
    /\ (LastSent("redistribute_capital") /\ (pre[1].args = <<>> \/ Len(pre[1].args) > 20))
          => Refused

\* extract_capital with eleven ids was sent to a paused portfolio
C28_Witness ==
    /\ LastSent("extract_capital")
    /\ pre[1].portfolio.emergency_pause
    /\ Len(pre[1].args) = 11
    /\ ix_result = Err("EmergencyPaused")
    /\ portfolio = pre[1].portfolio

\* consecutive settings of last_rebalance are at least the interval apart
Spaced(cycles, interval) ==
    \A i \in 1..(Len(cycles) - 1) :
        I64Ge(I64Difference(cycles[i + 1], cycles[i]), interval)

=============================================================================
